---- MODULE Spec2Model ----
(***************************************************************************)
(* A model of remix-auth-github's GitHubStrategy (src/src/index.ts, the    *)
(* arctic-based variant): the authenticate() state machine with its state  *)
(* cookie, the token exchange and the verify callback; and of the scope    *)
(* of the legacy OAuth2Strategy-based variant (src/unnamed/part_001), and   *)
(* of the email normalizer Emails.Response (src/src/lib/emails.ts); the    *)
(* legacy getAccessToken, Request.Context (src/unnamed/part_000) and the    *)
(* userProfile of the OAuth2Strategy-based variants.                        *)
(*                                                                         *)
(* Strings are TLA+ strings.  A string that the program parses (a cookie   *)
(* value, a query string) is a sequence of tokens in which "&" and "="     *)
(* are the separator characters and every other token is a run of          *)
(* characters holding neither.                                             *)
(***************************************************************************)
EXTENDS Integers, Sequences, FiniteSets, TLC

VARIABLES
    options,    \* GitHubStrategy.options, set by the constructor
    calls,      \* one record per authenticate() call slot
    legacy,     \* the instance of the legacy variant of the strategy
    client,     \* GitHubStrategy.client, set by the constructor
    refresh,    \* the refreshToken() call in flight
    emailsResponse, \* an Emails.Response and what its emails() returned
    accessTokenCall, \* a getAccessToken() call of the legacy variant
    context,        \* a Request.Context and the request built from it
    profileCall,    \* a userProfile() call of an OAuth2Strategy-based variant
    stateLog,       \* the states generateState() returned and the redirects carried
    override        \* the authorizationParams of the instance: the default or a subclass's

vars == <<options, calls, legacy, client, refresh, emailsResponse,
          accessTokenCall, context, profileCall, stateLog, override>>

\* the variables authenticate() does not write
aside == <<legacy, client, refresh, emailsResponse, accessTokenCall, context, profileCall,
          stateLog, override>>

\* authenticate() calls that can be in flight at the same time
Calls == {1, 2}

\* JavaScript's null / undefined where a string is expected
null == "<null>"

\* An optional non-string value: None, or Some(v)
None == <<>>
Some(v) == <<v>>

\* a ?? b on an optional value
OrElse(opt, default) == IF opt = None THEN default ELSE opt[1]

\* JavaScript truthiness of a string-or-null: null and "" are falsy
Truthy(v) == v # null /\ v # ""

Min(S) == CHOOSE m \in S : \A n \in S : m <= n

-----------------------------------------------------------------------------
(* URLSearchParams: an ordered list of <<name, value>> pairs *)

\* URLSearchParams.get: the first value with that name, or null
SearchParamsGet(params, name) ==
    LET idx == {i \in 1..Len(params) : params[i][1] = name}
    IN  IF idx = {} THEN null ELSE params[Min(idx)][2]

\* URLSearchParams.has
SearchParamsHas(params, name) ==
    \E i \in 1..Len(params) : params[i][1] = name

\* URLSearchParams.set: replace the first pair of that name and drop the
\* others, or append
SearchParamsSet(params, name, value) ==
    LET idx == {i \in 1..Len(params) : params[i][1] = name}
        Keep(i) == i \notin idx \/ i = Min(idx)
        kept == SelectSeq([i \in 1..Len(params) |-> <<i, params[i]>>],
                          LAMBDA p : Keep(p[1]))
    IN  IF idx = {}
        THEN Append(params, <<name, value>>)
        ELSE [i \in 1..Len(kept) |->
                IF kept[i][1] = Min(idx) THEN <<name, value>> ELSE kept[i][2]]

RECURSIVE JoinTokens(_)
JoinTokens(ts) == IF ts = <<>> THEN "" ELSE Head(ts) \o JoinTokens(Tail(ts))

\* index of the first occurrence of token t in ts, 0 when there is none
FirstIndex(ts, t) ==
    LET idx == {i \in 1..Len(ts) : ts[i] = t}
    IN  IF idx = {} THEN 0 ELSE Min(idx)

\* the pieces of ts between the occurrences of the separator sep
RECURSIVE SplitOn(_, _)
SplitOn(ts, sep) ==
    LET i == FirstIndex(ts, sep)
    IN  IF i = 0 THEN <<ts>>
        ELSE <<SubSeq(ts, 1, i - 1)>> \o SplitOn(SubSeq(ts, i + 1, Len(ts)), sep)

\* one name=value piece of a query string: split at the first "="
ParsePiece(piece) ==
    LET i == FirstIndex(piece, "=")
    IN  IF i = 0 THEN <<JoinTokens(piece), "">>
        ELSE <<JoinTokens(SubSeq(piece, 1, i - 1)),
               JoinTokens(SubSeq(piece, i + 1, Len(piece)))>>

\* new URLSearchParams(string): the application/x-www-form-urlencoded parser
ParseQuery(ts) ==
    LET pieces == SelectSeq(SplitOn(ts, "&"), LAMBDA p : p # <<>>)
    IN  [i \in 1..Len(pieces) |-> ParsePiece(pieces[i])]

\* the token(s) of one string: the empty string has none
Tok(s) == IF s = "" THEN <<>> ELSE <<s>>

\* URLSearchParams.toString: name=value pieces joined by "&"
RECURSIVE FormEncode(_)
FormEncode(params) ==
    IF params = <<>> THEN <<>>
    ELSE LET p == Head(params)
             piece == Tok(p[1]) \o <<"=">> \o Tok(p[2])
         IN  IF Len(params) = 1 THEN piece
             ELSE piece \o <<"&">> \o FormEncode(Tail(params))

\* new URLSearchParams(cookie.get(name)): no cookie of that name gives an
\* empty list
URLSearchParamsInit(opt) == IF opt = None THEN <<>> ELSE ParseQuery(opt[1])

-----------------------------------------------------------------------------
(* Requests *)

\* request.headers.get(name): a request's headers are <<name, value>> pairs
HeadersGet(headers, name) ==
    LET idx == {i \in 1..Len(headers) : headers[i][1] = name}
    IN  IF idx = {} THEN None ELSE Some(headers[Min(idx)][2])

\* new Cookie(header).get(name): a Cookie header is a list of
\* [name, value] entries, the value a token string
CookieGet(cookie, name) ==
    LET idx == {i \in 1..Len(cookie) : cookie[i].name = name}
    IN  IF idx = {} THEN None ELSE Some(cookie[Min(idx)].value)

-----------------------------------------------------------------------------
(* GitHubStrategy.ConstructorOptions *)

ClientId == "MY_CLIENT_ID"
ClientSecret == "MY_CLIENT_SECRET"
RedirectURI == "https://example.app/callback"

\* the `cookie` option: unset, a string, or an object of SetCookie
\* attributes with a name (a function from attribute names to values)
CookieUnset == [kind |-> "unset", string |-> null, object |-> <<>>]
CookieString(s) == [kind |-> "string", string |-> s, object |-> <<>>]
CookieObject(o) == [kind |-> "object", string |-> null, object |-> o]

\* the `scopes` option: unset (None) or a list of scopes
ScopesUnset == None
Scopes(list) == Some(list)

Options(cookie, scopes) ==
    [ clientId |-> ClientId, clientSecret |-> ClientSecret,
      redirectURI |-> RedirectURI, cookie |-> cookie, scopes |-> scopes ]

\* the configurations a strategy is constructed with
OptionsSet ==
    { Options(CookieUnset, ScopesUnset),
      Options(CookieString(""), Scopes(<<"user:email", "read:user">>)),
      Options(CookieString("custom"), ScopesUnset),
      Options(CookieObject(("name" :> "custom") @@ ("maxAge" :> 60)
                           @@ ("sameSite" :> "Strict")),
              Scopes(<<"user:email", "read:user">>)) }

\* the cookie is named github whatever the option
cookieNameDefault(opts) == "github"

\* get cookieName()
cookieName(opts) ==
    IF opts.cookie.kind = "string"
    THEN (IF Truthy(opts.cookie.string) THEN opts.cookie.string ELSE "github")
    ELSE IF opts.cookie.kind = "object" /\ "name" \in DOMAIN opts.cookie.object
         THEN opts.cookie.object["name"]
         ELSE "github"

\* get cookieOptions()
cookieOptions(opts) ==
    IF opts.cookie.kind # "object" THEN <<>> ELSE opts.cookie.object

-----------------------------------------------------------------------------
(* The values authenticate() throws or returns *)

NoError == [type |-> "", message |-> "", code |-> null, description |-> null,
            uri |-> null, state |-> null]

\* new OAuth2RequestError(code, description, uri, state)
OAuth2RequestError(code, description, uri, state) ==
    [type |-> "OAuth2RequestError", message |-> "", code |-> code,
     description |-> description, uri |-> uri, state |-> state]

ReferenceError(message) == [NoError EXCEPT !.type = "ReferenceError", !.message = message]
RangeError(message) == [NoError EXCEPT !.type = "RangeError", !.message = message]

\* a failed connection to the token endpoint
ArcticFetchError == [NoError EXCEPT !.type = "ArcticFetchError"]
\* an error thrown by the caller's verify function
VerifyError == [NoError EXCEPT !.type = "Error", !.message = "verify rejected"]

NoURL == [hostname |-> "", pathname |-> "", search |-> <<>>]
NoResponse == [status |-> 0, Location |-> NoURL, SetCookie |-> <<>>]

\* how a call ended: nothing yet, a thrown redirect response, a thrown
\* error, or a returned user
NoOutcome == [kind |-> "none", response |-> NoResponse, error |-> NoError, user |-> null]
Redirected(response) == [NoOutcome EXCEPT !.kind = "redirect", !.response = response]
Failed(error) == [NoOutcome EXCEPT !.kind = "failure", !.error = error]
Returned(user) == [NoOutcome EXCEPT !.kind = "result", !.user = user]

-----------------------------------------------------------------------------
(* The adapter (arctic's GitHub client) and the redirect helper *)

AuthorizationEndpoint ==
    [hostname |-> "github.com", pathname |-> "/login/oauth/authorize", search |-> <<>>]

RECURSIVE JoinWith(_, _)
JoinWith(strings, sep) ==
    IF strings = <<>> THEN ""
    ELSE IF Len(strings) = 1 THEN Head(strings)
    ELSE Head(strings) \o sep \o JoinWith(Tail(strings), sep)

\* the scope parameter is set whatever the list of scopes
createAuthorizationURLScopeAlways(opts, state, scopes) ==
    SearchParamsSet(
        SearchParamsSet(
            SearchParamsSet(
                SearchParamsSet(
                    SearchParamsSet(<<>>, "response_type", "code"),
                    "client_id", opts.clientId),
                "redirect_uri", opts.redirectURI),
            "state", state),
        "scope", JoinWith(scopes, " "))

\* client.createAuthorizationURL(state, scopes): the search parameters of
\* the URL it returns
createAuthorizationURL(opts, state, scopes) ==
    LET p1 == SearchParamsSet(<<>>, "response_type", "code")
        p2 == SearchParamsSet(p1, "client_id", opts.clientId)
        p3 == SearchParamsSet(p2, "redirect_uri", opts.redirectURI)
        p4 == SearchParamsSet(p3, "state", state)
    IN  IF Len(scopes) > 0
        THEN SearchParamsSet(p4, "scope", JoinWith(scopes, " "))
        ELSE p4

\* authorizationParams(params, request): a copy of the parameters
authorizationParams(params, request) == params

\* redirect(url, init): a 302 response with the Location and the headers
redirect(url, setCookie) ==
    [status |-> 302, Location |-> url, SetCookie |-> setCookie]

-----------------------------------------------------------------------------
(* The requests authenticate() is called with *)

DescriptionValues == {null, "denied"}
UriValues == {null, "https://docs.example/error"}
StateValues == {null, "", "s1", "s2"}
CodeValues == {null, "", "c1"}

\* a query parameter, left out when its value is null
Param(name, v) == IF v = null THEN <<>> ELSE <<<<name, v>>>>

\* the search string of the request URL
Search(e, d, u, s, c) ==
    FormEncode(Param("error", e) \o Param("error_description", d)
               \o Param("error_uri", u) \o Param("state", s) \o Param("code", c))

\* the values of a cookie in the incoming Cookie header
CookieValues ==
    { <<"foo", "=", "bar">>,
      <<"state", "=">>,
      <<"state", "=", "s1">>,
      <<"state", "=", "s2">> }

CookieNames == {"github", "custom"}

\* a Cookie header holding one cookie
CookieHeader(name, value) == << <<"cookie", <<[name |-> name, value |-> value]>> >> >>

\* the request's headers: no Cookie header, or one holding one cookie
HeaderChoices ==
    { <<>> } \cup { CookieHeader(n, v) : n \in CookieNames, v \in CookieValues }

\* requests whose URL has no `error` parameter, or an empty one
PlainRequests ==
    { [search |-> Search(t[1], null, null, t[2], t[3]), headers |-> t[4]] :
        t \in {null, ""} \X StateValues \X CodeValues \X HeaderChoices }

\* requests whose URL reports an error of the provider
ErrorRequests ==
    { [search |-> Search("access_denied", t[1], t[2], t[3], t[4]), headers |-> t[5]] :
        t \in DescriptionValues \X UriValues \X StateValues \X CodeValues
               \X { <<>>, CookieHeader("github", <<"state", "=", "s1">>),
                     CookieHeader("custom", <<"state", "=", "s1">>) } }

Requests == PlainRequests \cup ErrorRequests

NoRequest == [search |-> <<>>, headers |-> <<>>]

\* generateState(): a fresh random token
GeneratedStates == {"s1", "s2"}

\* the OAuth2Tokens objects the token endpoint can answer with
TokenSet == {"tokens1", "tokens2"}

\* the failures of validateAuthorizationCode: an OAuth error reported by
\* the provider, or a transport failure
ExchangeErrors ==
    { OAuth2RequestError("bad_verification_code", null, null, null),
      ArcticFetchError }

\* what the verify callback can resolve to
Users == {"user1", "user2"}

-----------------------------------------------------------------------------
(* authenticate(request), up to its first await *)

\* the error parameter is never looked at
HasErrorIgnored(error) == FALSE

\* the error branch is taken whenever the parameter is there
HasErrorPresent(error) == error # null

\* if (error)
HasError(error) == Truthy(error)

\* the redirect branch is taken only when the parameter is not there
NoStateInURLAbsent(stateUrl) == stateUrl = null

\* if (!stateUrl)
NoStateInURL(stateUrl) == ~Truthy(stateUrl)

\* the code parameter is read without the check
MissingCodeUnchecked(code) == FALSE

\* if (!code)
MissingCode(code) == ~Truthy(code)

\* the cookie is compared without the check that it holds a state
MissingCookieStateUnchecked(params) == FALSE

\* if (!params.has("state"))
MissingCookieState(params) == ~SearchParamsHas(params, "state")

\* the comparison reads the cookie on both sides
StateMismatchSelf(params, stateUrl) ==
    SearchParamsGet(params, "state") # SearchParamsGet(params, "state")

\* if (params.get("state") !== stateUrl)
StateMismatch(params, stateUrl) == SearchParamsGet(params, "state") # stateUrl

\* the cookie is written with a state other than the generated one
CookieValueStale(state) == FormEncode(<< <<"state", "s1">> >>)

\* the cookie is written under another key than the one read back
CookieValueOtherKey(state) == FormEncode(<< <<"codeVerifier", state>> >>)

\* the value of the state cookie: new URLSearchParams({ state }).toString()
CookieValue(state) == FormEncode(<< <<"state", state>> >>)

\* new SetCookie({ name, value, httpOnly, maxAge, path, sameSite,
\* ...this.cookieOptions })
NewSetCookie(opts, state) ==
    cookieOptions(opts) @@
    ( ("name" :> cookieName(opts)) @@ ("value" :> CookieValue(state)) @@
      ("httpOnly" :> TRUE) @@ ("maxAge" :> 60 * 5) @@ ("path" :> "/") @@
      ("sameSite" :> "Lax") )

\* this.authorizationParams(params, request): the method of the class, or
\* the one a subclass defines in its place
thisAuthorizationParams(params, request) ==
    CASE override = "default" -> authorizationParams(params, request)
      [] override = "allow_signup" -> SearchParamsSet(params, "allow_signup", "true")
      [] override = "state" -> SearchParamsSet(params, "state", "overridden")
      [] override = "empty" -> <<>>

\* the URL of the adapter is used as it is
AuthorizationURLOfAdapter(opts, request, state) ==
    [AuthorizationEndpoint EXCEPT
        !.search = FormEncode(createAuthorizationURL(opts, state,
                                                     OrElse(opts.scopes, <<>>)))]

\* the authorization URL the redirect goes to:
\* url.search = this.authorizationParams(url.searchParams, request).toString()
AuthorizationURL(opts, request, state) ==
    LET url == createAuthorizationURL(opts, state, OrElse(opts.scopes, <<>>))
    IN  [AuthorizationEndpoint EXCEPT
            !.search = FormEncode(thisAuthorizationParams(url, request))]

\* the redirect is returned instead of thrown
RedirectBranchReturned(opts, request, state) ==
    [Redirected(redirect(AuthorizationURL(opts, request, state),
                         NewSetCookie(opts, state)))
        EXCEPT !.kind = "result", !.user = "user1"]

\* the initial-login branch: throw redirect(url, { "Set-Cookie": header })
RedirectBranch(opts, request, state) ==
    Redirected(redirect(AuthorizationURL(opts, request, state),
                        NewSetCookie(opts, state)))

\* a step of authenticate: it throws (ends with that outcome), or awaits
\* client.validateAuthorizationCode(code)
Throw(outcome) == [kind |-> "throw", outcome |-> outcome, code |-> null]
AwaitExchange(code) == [kind |-> "await", outcome |-> NoOutcome, code |-> code]

\* the code is exchanged before the state cookie is validated
CallbackBranchExchangeFirst(opts, request, stateUrl) ==
    LET code == SearchParamsGet(ParseQuery(request.search), "code")
    IN  IF MissingCode(code)
        THEN Throw(Failed(ReferenceError("Missing code in the URL")))
        ELSE AwaitExchange(code)

\* the state-mismatch error carries the state the cookie holds
CallbackBranchLeaks(opts, request, stateUrl) ==
    LET url == ParseQuery(request.search)
        code == SearchParamsGet(url, "code")
        cookie == OrElse(HeadersGet(request.headers, "cookie"), <<>>)
        params == URLSearchParamsInit(CookieGet(cookie, cookieName(opts)))
    IN  IF MissingCode(code)
        THEN Throw(Failed(ReferenceError("Missing code in the URL")))
        ELSE IF MissingCookieState(params)
        THEN Throw(Failed(ReferenceError("Missing state on cookie.")))
        ELSE IF StateMismatch(params, stateUrl)
        THEN Throw(Failed([RangeError("State in URL doesn't match state in cookie.")
                              EXCEPT !.state = SearchParamsGet(params, "state")]))
        ELSE AwaitExchange(code)

\* a callback whose cookie holds no state starts the flow again: it is
\* redirected with a new cookie for the state of its URL
CallbackBranchRestarts(opts, request, stateUrl) ==
    LET url == ParseQuery(request.search)
        code == SearchParamsGet(url, "code")
        cookie == OrElse(HeadersGet(request.headers, "cookie"), <<>>)
        params == URLSearchParamsInit(CookieGet(cookie, cookieName(opts)))
    IN  IF MissingCode(code)
        THEN Throw(Failed(ReferenceError("Missing code in the URL")))
        ELSE IF MissingCookieState(params)
        THEN Throw(RedirectBranch(opts, request, stateUrl))
        ELSE IF StateMismatch(params, stateUrl)
        THEN Throw(Failed(RangeError("State in URL doesn't match state in cookie.")))
        ELSE AwaitExchange(code)

\* the callback branch
CallbackBranch(opts, request, stateUrl) ==
    LET url == ParseQuery(request.search)
        code == SearchParamsGet(url, "code")
        cookie == OrElse(HeadersGet(request.headers, "cookie"), <<>>)
        params == URLSearchParamsInit(CookieGet(cookie, cookieName(opts)))
    IN  IF MissingCode(code)
        THEN Throw(Failed(ReferenceError("Missing code in the URL")))
        ELSE IF MissingCookieState(params)
        THEN Throw(Failed(ReferenceError("Missing state on cookie.")))
        ELSE IF StateMismatch(params, stateUrl)
        THEN Throw(Failed(RangeError("State in URL doesn't match state in cookie.")))
        ELSE AwaitExchange(code)

\* authenticate(request) with `state` the value generateState() returns
authenticate(opts, request, state) ==
    LET url == ParseQuery(request.search)
        stateUrl == SearchParamsGet(url, "state")
        error == SearchParamsGet(url, "error")
    IN  IF HasError(error)
        THEN Throw(Failed(OAuth2RequestError(
                 error, SearchParamsGet(url, "error_description"),
                 SearchParamsGet(url, "error_uri"), stateUrl)))
        ELSE IF NoStateInURL(stateUrl)
        THEN Throw(RedirectBranch(opts, request, state))
        ELSE CallbackBranch(opts, request, stateUrl)

\* some of the scopes GitHub defines
ScopeValues == {"user:email", "read:user", "repo"}

\* the longest list of scopes configured
MaxScopes == 2

-----------------------------------------------------------------------------
(* The legacy variant (OAuth2Strategy-based): its `scope` option.  A scope *)
(* string is a sequence of tokens in which " " is the separator character  *)
(* and every other token is a run of characters without a space.           *)

GitHubStrategyDefaultScope == <<"user:email">>
GitHubStrategyScopeSeperator == " "

\* the `scope` option: unset, a string, or an array of scopes
LegacyScopeUnset == [kind |-> "unset", string |-> <<>>, array |-> <<>>]
LegacyScopeString(s) == [kind |-> "string", string |-> s, array |-> <<>>]
LegacyScopeArray(a) == [kind |-> "array", string |-> <<>>, array |-> a]

\* Array.prototype.join on strings: the strings with the separator between
RECURSIVE Join(_, _)
Join(strings, sep) ==
    IF strings = <<>> THEN <<>>
    ELSE IF Len(strings) = 1 THEN strings[1]
    ELSE strings[1] \o <<sep>> \o Join(Tail(strings), sep)

\* the pieces of a split string that are empty are dropped
getScopeSkipsEmpty(scope) ==
    IF scope.kind = "unset" \/ (scope.kind = "string" /\ scope.string = <<>>)
    THEN <<GitHubStrategyDefaultScope>>
    ELSE IF scope.kind = "string"
    THEN SelectSeq(SplitOn(scope.string, GitHubStrategyScopeSeperator),
                   LAMBDA piece : piece # <<>>)
    ELSE scope.array

\* getScope(scope): `!scope` holds of undefined and of the empty string
getScope(scope) ==
    IF scope.kind = "unset" \/ (scope.kind = "string" /\ scope.string = <<>>)
    THEN <<GitHubStrategyDefaultScope>>
    ELSE IF scope.kind = "string"
    THEN SplitOn(scope.string, GitHubStrategyScopeSeperator)
    ELSE scope.array

\* String(boolean)
String(b) == IF b THEN "true" ELSE "false"

NoLegacy ==
    [ pc |-> "none",             \* none, constructed, or params (after authorizationParams())
      scopeOption |-> LegacyScopeUnset,
      scope |-> <<>>,            \* this.scope
      allowSignup |-> TRUE,      \* this.allowSignup
      params |-> <<>> ]          \* what authorizationParams() returned

\* the longest scope string, in tokens
MaxScopeTokens == 3

\* the words of a scope string
LegacyWords == {"custom", "read:user"}

LegacyScopeOptions ==
    {LegacyScopeUnset}
    \cup { LegacyScopeString(s) :
             s \in UNION { [1..n -> LegacyWords \cup {GitHubStrategyScopeSeperator}] :
                             n \in 0..MaxScopeTokens } }
    \cup { LegacyScopeArray([i \in 1..Len(a) |-> <<a[i]>>]) :
             a \in UNION { [1..n -> ScopeValues] : n \in 0..MaxScopes } }

\* new GitHubStrategy({ scope, allowSignup, ... }, verify)
LegacyConstruct ==
    /\ legacy.pc = "none"
    /\ \E scope \in LegacyScopeOptions, allowSignup \in {None, Some(TRUE), Some(FALSE)} :
          legacy' = [NoLegacy EXCEPT
                        !.pc = "constructed",
                        !.scopeOption = scope,
                        !.scope = Join(getScope(scope), GitHubStrategyScopeSeperator),
                        !.allowSignup = OrElse(allowSignup, TRUE)]
    /\ UNCHANGED <<options, calls, client, refresh, emailsResponse,
                   accessTokenCall, context, profileCall,
                   stateLog, override>>

\* authorizationParams()
LegacyAuthorizationParams ==
    /\ legacy.pc = "constructed"
    /\ legacy' = [legacy EXCEPT
                    !.pc = "params",
                    !.params = << <<"scope", legacy.scope>>,
                                  <<"allow_signup", String(legacy.allowSignup)>> >>]
    /\ UNCHANGED <<options, calls, client, refresh, emailsResponse,
                   accessTokenCall, context, profileCall,
                   stateLog, override>>

-----------------------------------------------------------------------------
(* Emails.Response (lib/emails.ts): the body of GitHub's /user/emails      *)
(* response and its normalization                                          *)

\* a JSON value that is an object with these fields
Object(fields) == [kind |-> "object", fields |-> fields]
\* JSON values that are no such object: null, an array, a string
NullValue == [kind |-> "null", fields |-> <<>>]
ArrayValue == [kind |-> "array", fields |-> <<>>]
StringValue == [kind |-> "string", fields |-> <<>>]

\* typeof value
TypeOf(value) ==
    IF value.kind \in {"object", "null", "array"} THEN "object" ELSE value.kind

\* the truthiness of a field's value
ToBoolean(v) == IF v \in BOOLEAN THEN v ELSE v \notin {null, ""}

\* "email" in item && "verified" in item && "primary" in item &&
\* "visibility" in item: `in` throws a TypeError on null
HasKeys(item) ==
    IF item.kind = "null" THEN "throw"
    ELSE IF {"email", "verified", "primary", "visibility"} \subseteq DOMAIN item.fields
         THEN "valid" ELSE "invalid"

\* the callback of every() without its test for null
ItemCheckNullUntested(item) ==
    IF TypeOf(item) # "object" THEN "invalid"
    ELSE IF item.kind = "array" THEN "invalid"
    ELSE HasKeys(item)

\* the callback of this.body.every(...)
ItemCheck(item) ==
    IF TypeOf(item) # "object" THEN "invalid"
    ELSE IF item.kind = "null" THEN "invalid"
    ELSE IF item.kind = "array" THEN "invalid"
    ELSE HasKeys(item)

\* Array.prototype.every: stops at the first item that fails
RECURSIVE Every(_)
Every(items) ==
    IF items = <<>> THEN "valid"
    ELSE IF ItemCheck(Head(items)) = "valid" THEN Every(Tail(items))
    ELSE ItemCheck(Head(items))

\* a primary entry is put before every other entry, primary or not
CompareFirstWins(a, b) ==
    IF ToBoolean(a.fields["primary"]) THEN -1
    ELSE IF ToBoolean(b.fields["primary"]) THEN 1
    ELSE 0

\* the comparator given to sort()
Compare(a, b) ==
    IF ToBoolean(a.fields["primary"]) /\ ~ToBoolean(b.fields["primary"]) THEN -1
    ELSE IF ~ToBoolean(a.fields["primary"]) /\ ToBoolean(b.fields["primary"]) THEN 1
    ELSE 0

\* one step of a stable sort: x, which came after all of sorted, goes
\* behind the last entry it does not have to precede
Insert(sorted, x) ==
    LET behind == {i \in 1..Len(sorted) : Compare(x, sorted[i]) >= 0}
        k == IF behind = {} THEN 0
             ELSE CHOOSE i \in behind : \A j \in behind : j <= i
    IN  SubSeq(sorted, 1, k) \o <<x>> \o SubSeq(sorted, k + 1, Len(sorted))

\* Array.prototype.sort(compare), which is stable
RECURSIVE Sort(_)
Sort(items) ==
    IF items = <<>> THEN <<>>
    ELSE Insert(Sort(SubSeq(items, 1, Len(items) - 1)), items[Len(items)])

\* what emails() does: it returns a list or throws
EmailsReturn(list) == [kind |-> "return", list |-> list]
EmailsThrow == [kind |-> "throw", list |-> <<>>]

\* .filter(({ verified }) => verified).sort(...).map(({ email, primary }) => ...)
Transform(items) ==
    LET sorted == Sort(SelectSeq(items, LAMBDA item : ToBoolean(item.fields["verified"])))
    IN  [i \in 1..Len(sorted) |->
            [ value |-> sorted[i].fields["email"],
              type |-> IF ToBoolean(sorted[i].fields["primary"])
                       THEN "primary" ELSE "secondary" ]]

\* Response.emails()
emails(body) ==
    IF body.kind # "array" THEN EmailsReturn(<<>>)
    ELSE IF Every(body.items) = "throw" THEN EmailsThrow
    ELSE IF Every(body.items) = "invalid" THEN EmailsReturn(<<>>)
    ELSE EmailsReturn(Transform(body.items))

\* a body: a JSON array of items, or a JSON value that is no array
ArrayBody(items) == [kind |-> "array", items |-> items]
ObjectBody == [kind |-> "object", items |-> <<>>]
NullBody == [kind |-> "null", items |-> <<>>]

\* no Response constructed
NoEmailsResponse == [pc |-> "none", body |-> NullBody, result |-> EmailsReturn(<<>>)]

\* the longest array of a body
MaxEmails == 3

EmailValues == {"a@example.com", "b@example.com", "c@example.com"}

\* the records of GitHub's response
WellFormedItems ==
    { Object([email |-> e, verified |-> v, primary |-> p, visibility |-> "public"]) :
        e \in EmailValues, v \in BOOLEAN, p \in BOOLEAN }

\* a verified primary record without one of its keys
Without(key) ==
    Object([k \in {"email", "verified", "primary", "visibility"} \ {key} |->
              IF k = "email" THEN "a@example.com"
              ELSE IF k = "visibility" THEN "public" ELSE TRUE])

IllFormedItems ==
    {NullValue, ArrayValue, StringValue}
    \cup { Without(key) : key \in {"email", "verified", "primary", "visibility"} }

Bodies ==
    {ObjectBody, NullBody}
    \cup { ArrayBody(items) :
             items \in UNION { [1..n -> WellFormedItems \cup IllFormedItems] :
                                 n \in 0..MaxEmails } }

-----------------------------------------------------------------------------
(* getAccessToken of the legacy variant: the body of the token response    *)
(* is a list of <<name, value>> pairs, each value the sequence of its      *)
(* characters                                                              *)

\* URLSearchParams.get on such a list: None when no pair has the name
Get(data, name) ==
    LET idx == {i \in 1..Len(data) : data[i][1] = name}
    IN  IF idx = {} THEN None ELSE Some(data[Min(idx)][2])

\* !value for a string or null
Falsy(opt) == opt = None \/ opt[1] = <<>>

\* the decimal digits
DigitValue == ("0" :> 0) @@ ("1" :> 1) @@ ("7" :> 7)

\* what parseExpiresIn returns: a number, NaN or null
NumberValue(n) == [kind |-> "number", value |-> n]
NaN == [kind |-> "NaN", value |-> 0]
Null == [kind |-> "null", value |-> 0]

RECURSIVE SkipWhitespace(_)
SkipWhitespace(chars) ==
    IF chars # <<>> /\ Head(chars) = " " THEN SkipWhitespace(Tail(chars)) ELSE chars

\* the longest prefix of digits
RECURSIVE DigitsPrefix(_)
DigitsPrefix(chars) ==
    IF chars # <<>> /\ Head(chars) \in DOMAIN DigitValue
    THEN <<Head(chars)>> \o DigitsPrefix(Tail(chars))
    ELSE <<>>

\* the number a sequence of digits denotes
RECURSIVE Decimal(_)
Decimal(digits) ==
    IF digits = <<>> THEN 0
    ELSE Decimal(SubSeq(digits, 1, Len(digits) - 1)) * 10
            + DigitValue[digits[Len(digits)]]

\* Number.parseInt(value, 10): leading whitespace is skipped, a sign is
\* taken, the digits up to the first other character are read; no digit
\* gives NaN.  It does not throw.
parseInt(chars) ==
    LET trimmed == SkipWhitespace(chars)
        signed == trimmed # <<>> /\ Head(trimmed) \in {"-", "+"}
        digits == DigitsPrefix(IF signed THEN Tail(trimmed) ELSE trimmed)
    IN  IF digits = <<>> THEN NaN
        ELSE IF signed /\ Head(trimmed) = "-" THEN NumberValue(0 - Decimal(digits))
        ELSE NumberValue(Decimal(digits))

\* parseExpiresIn(value): the catch is never entered
parseExpiresIn(value) ==
    IF Falsy(value) THEN Null ELSE parseInt(value[1])

\* new AuthorizationError(message)
AuthorizationError(message) ==
    [NoError EXCEPT !.type = "AuthorizationError", !.message = message]

AccessTokenThrow(error) ==
    [kind |-> "throw", error |-> error, accessToken |-> <<>>, refreshToken |-> <<>>,
     tokenType |-> <<>>, accessTokenExpiresIn |-> Null, refreshTokenExpiresIn |-> Null]

\* the token type is looked at before the access token
getAccessTokenTypeFirst(data) ==
    IF Falsy(Get(data, "token_type"))
    THEN AccessTokenThrow(AuthorizationError("Missing token type."))
    ELSE IF Falsy(Get(data, "access_token"))
    THEN AccessTokenThrow(AuthorizationError("Missing access token."))
    ELSE [kind |-> "return", error |-> NoError,
          accessToken |-> Get(data, "access_token")[1],
          refreshToken |-> OrElse(Get(data, "refresh_token"), <<>>),
          tokenType |-> Get(data, "token_type")[1],
          accessTokenExpiresIn |-> parseExpiresIn(Get(data, "expires_in")),
          refreshTokenExpiresIn |->
              parseExpiresIn(Get(data, "refresh_token_expires_in"))]

\* getAccessToken(response), `data` the parameters of the response's text
getAccessToken(data) ==
    IF Falsy(Get(data, "access_token"))
    THEN AccessTokenThrow(AuthorizationError("Missing access token."))
    ELSE IF Falsy(Get(data, "token_type"))
    THEN AccessTokenThrow(AuthorizationError("Missing token type."))
    ELSE [kind |-> "return", error |-> NoError,
          accessToken |-> Get(data, "access_token")[1],
          refreshToken |-> OrElse(Get(data, "refresh_token"), <<>>),
          tokenType |-> Get(data, "token_type")[1],
          accessTokenExpiresIn |-> parseExpiresIn(Get(data, "expires_in")),
          refreshTokenExpiresIn |->
              parseExpiresIn(Get(data, "refresh_token_expires_in"))]

\* no getAccessToken call
NoAccessTokenCall ==
    [pc |-> "none", data |-> <<>>, result |-> AccessTokenThrow(NoError)]

-----------------------------------------------------------------------------
(* Request.Context (src/unnamed/part_000)                                   *)

\* new TypeError(message), thrown by the Request constructor
TypeError(message) == [NoError EXCEPT !.type = "TypeError", !.message = message]

\* the Request constructor normalizes the method: get, head, post and a few
\* more are upper-cased whatever their case
NormalizeMethod(method) ==
    CASE method = "get" -> "GET"
      [] method = "head" -> "HEAD"
      [] method = "post" -> "POST"
      [] OTHER -> method

NoBuiltRequest ==
    [kind |-> "none", method |-> "", url |-> "", headers |-> <<>>, body |-> None,
     error |-> NoError]

\* new globalThis.Request(url, init): a body with GET or HEAD is a TypeError;
\* a string body brings a Content-Type only when the headers have none; the
\* request has a copy of the headers
NewRequest(url, init) ==
    LET method == NormalizeMethod(init.method)
    IN  IF init.body # None /\ method \in {"GET", "HEAD"}
        THEN [NoBuiltRequest EXCEPT !.kind = "throw",
                 !.error = TypeError("Request with GET/HEAD method cannot have body.")]
        ELSE [NoBuiltRequest EXCEPT
                 !.kind = "request", !.method = method, !.url = url,
                 !.headers = IF init.body # None /\ "Content-Type" \notin DOMAIN init.headers
                             THEN init.headers @@ ("Content-Type" :> "text/plain;charset=UTF-8")
                             ELSE init.headers,
                 !.body = init.body]

\* Headers.set(name, value)
HeadersSet(headers, name, value) ==
    [n \in DOMAIN headers \cup {name} |-> IF n = name THEN value ELSE headers[n]]

\* Map.set(key, value) on a Map kept as the list of its entries in insertion
\* order: an existing key keeps its place
MapSet(entries, key, value) ==
    IF \E i \in 1..Len(entries) : entries[i][1] = key
    THEN [i \in 1..Len(entries) |->
             IF entries[i][1] = key THEN <<key, value>> ELSE entries[i]]
    ELSE Append(entries, <<key, value>>)

\* the keys that are array indices; the model has one
IntegerKeys == {"1"}

IsIntegerKey(entry) == entry[1] \in IntegerKeys

IsStringKey(entry) == entry[1] \notin IntegerKeys

\* Object.fromEntries(map), as the list of the object's properties in the
\* order JSON.stringify visits them: integer keys first, then the other
\* keys in insertion order
ObjectFromEntries(entries) ==
    SelectSeq(entries, IsIntegerKey) \o SelectSeq(entries, IsStringKey)

\* a JSON string literal
Quote(string) == "\"" \o string \o "\""

\* JSON.stringify of an object of strings, as the list of its tokens
RECURSIVE Members(_)
Members(properties) ==
    IF properties = <<>> THEN <<>>
    ELSE <<Quote(Head(properties)[1]), ":", Quote(Head(properties)[2])>>
            \o (IF Tail(properties) = <<>> THEN <<>> ELSE <<",">>)
            \o Members(Tail(properties))

JSONStringify(properties) == <<"{">> \o Members(properties) \o <<"}">>

\* new Request.Context(method, userAgent)
Context(method, userAgent) ==
    [ pc |-> "context",
      method |-> method,
      body |-> <<>>,
      headers |-> HeadersSet(HeadersSet(HeadersSet(<<>>,
                      "Content-Type", "application/json"),
                      "Accept", "application/vnd.github.v3+json"),
                      "User-Agent", userAgent),
      userAgent |-> userAgent,      \* the constructor's argument
      token |-> None,               \* the argument of the last authorize()
      request |-> NoBuiltRequest ]  \* what the last toRequest() gave

\* context.authorize(token)
authorize(ctx, token) ==
    [ctx EXCEPT !.headers = HeadersSet(ctx.headers, "Authorization", "token " \o token),
                !.token = Some(token)]

\* no body whatever the method
toRequestWithoutBody(ctx, url) ==
    NewRequest(url, [method |-> ctx.method, headers |-> ctx.headers, body |-> None])

\* context.toRequest(url)
toRequest(ctx, url) ==
    NewRequest(url,
        [ method |-> ctx.method,
          headers |-> ctx.headers,
          body |-> IF ctx.method # "GET" /\ ctx.method # "HEAD"
                   THEN Some(JSONStringify(ObjectFromEntries(ctx.body)))
                   ELSE None ])

\* no Request.Context constructed
NoContext ==
    [ pc |-> "none", method |-> "", body |-> <<>>, headers |-> <<>>,
      userAgent |-> "", token |-> None, request |-> NoBuiltRequest ]

-----------------------------------------------------------------------------
(* userProfile of the OAuth2Strategy-based variants: src/src/index.ts      *)
(* (fetch by hand) and src/unnamed/part_002 (Request.Context, Emails.send) *)

\* the profile GitHub answers with; only its email is looked at here
NoProfile == [kind |-> "none", email |-> null]
Profile(email) == [kind |-> "profile", email |-> email]

NoProfileResult == [kind |-> "none", emails |-> <<>>, error |-> NoError]

\* no userProfile call
NoProfileCall ==
    [ pc |-> "idle",             \* idle, profile, emails or done
      scopes |-> None,           \* this.options.scopes
      userAgent |-> "",          \* this.userAgent
      accessToken |-> "",        \* tokens.access_token
      requests |-> <<>>,         \* the requests fetched, in order
      profile |-> NoProfile,     \* the user-info response
      list |-> None,             \* what fetchUserEmails / userEmails returned
      rejected |-> NoError,      \* what a fetch, json() or emails() failed with
      result |-> NoProfileResult ]

\* scopes?.includes(scope)
ScopesInclude(scopes, scope) ==
    scopes # None /\ \E i \in 1..Len(scopes[1]) : scopes[1][i] = scope

\* a fetch that failed, or a response whose json() failed
FetchError == TypeError("fetch failed")

\* fetch(url, { headers: { Accept, Authorization, "User-Agent" } })
FetchRequest(url, accessToken, userAgent) ==
    [NoBuiltRequest EXCEPT
        !.kind = "request", !.method = "GET", !.url = url,
        !.headers = HeadersSet(HeadersSet(HeadersSet(<<>>,
                        "Accept", "application/vnd.github.v3+json"),
                        "Authorization", "token " \o accessToken),
                        "User-Agent", userAgent)]

\* fetchUserEmails, from the parsed response on:
\* data.filter(...).sort(...).map(({ email }) => ({ value: email }))
fetchUserEmails(data) ==
    LET sorted == Sort(SelectSeq(data, LAMBDA item : ToBoolean(item.fields["verified"])))
    IN  [i \in 1..Len(sorted) |-> [value |-> sorted[i].fields["email"]]]

\* Array.prototype.concat: a new array, the receiver is left as it is
Concat(array, other) == array \o other

\* userProfile of index.ts after the user-info response, without emails
\* scopes: emails.push({ value: data.email })
ProfileOwnEmail(profile) == Append(<<>>, [value |-> profile.email])

\* userProfile of index.ts after fetchUserEmails returned `fetched`:
\* emails.concat(fetched) is evaluated and its value dropped
ProfileEmailsAfterFetch(fetched) ==
    LET array == <<>>
        concatenated == Concat(array, fetched)
    IN  array

\* the test that sends userProfile of index.ts to fetchUserEmails
WantsUserEmails(scopes) ==
    ScopesInclude(scopes, "user") \/ ScopesInclude(scopes, "user:email")

\* the constructor of part_002: scopes = [GitHubStrategyDefaultScope] when
\* the option is left out
LibScopes(scopes) == IF scopes = None THEN Some(<<"user:email">>) ELSE scopes

\* the context of userProfile / userEmails of part_002:
\* new Request.Context("GET", this.userAgent), then authorize(accessToken)
LibContext(accessToken, userAgent) == authorize(Context("GET", userAgent), accessToken)

\* the request UserProfile.send(endpoint, context) fetches: the one the
\* context builds for the endpoint
UserProfileSendRequest(endpoint, ctx) == toRequest(ctx, endpoint)

\* the request Emails.send(endpoint, context) fetches:
\* let request = context.toRequest(endpoint)
EmailsSendRequest(endpoint, ctx) == toRequest(ctx, endpoint)

\* part_002 asks for the emails whatever the scopes
LibWantsUserEmailsAlways(scopes) == TRUE

\* this.options.scopes?.includes(GitHubStrategyDefaultScope)
LibWantsUserEmails(scopes) == ScopesInclude(scopes, "user:email")

\* new GitHub(clientId, clientSecret, redirectURI)
GitHub(clientId, clientSecret, redirectURI) ==
    [clientId |-> clientId, clientSecret |-> clientSecret, redirectURI |-> redirectURI]

\* no refreshToken() call in flight
NoRefresh ==
    [ pc |-> "idle",             \* idle, pending or done
      refreshToken |-> null,     \* the argument refreshToken() was called with
      adapterCalls |-> <<>>,     \* the arguments refreshAccessToken was called with
      adapterTokens |-> null,    \* what refreshAccessToken resolved to
      adapterError |-> NoError,  \* what refreshAccessToken rejected with
      tokens |-> null,           \* what refreshToken() resolved to
      error |-> NoError ]        \* what refreshToken() rejected with

\* generateState() was not called and no redirect was issued
NoStateLog == [generated |-> <<>>, redirects |-> <<>>]

\* the instance is a GitHubStrategy itself: authorizationParams is the
\* method of the class
DefaultAuthorizationParams == "default"

\* after the constructor: the client is made from the options, nothing
\* else is in use
AsideIdle ==
    /\ legacy = NoLegacy
    /\ client = GitHub(options.clientId, options.clientSecret, options.redirectURI)
    /\ refresh = NoRefresh
    /\ stateLog = NoStateLog
    /\ override = DefaultAuthorizationParams
    /\ emailsResponse = NoEmailsResponse
    /\ accessTokenCall = NoAccessTokenCall
    /\ context = NoContext
    /\ profileCall = NoProfileCall

-----------------------------------------------------------------------------
(* One authenticate() call: where it stands, what it was given, what it    *)
(* called, what it got back and how it ended                               *)

IdleCall ==
    [ pc |-> "idle",              \* idle, exchange, verify or done
      request |-> NoRequest,      \* the request it was called with
      origin |-> NoResponse,      \* the redirect that this request follows, if any
      events |-> <<>>,            \* the calls it made and their returns, in order
      exchangeCode |-> null,      \* the argument given to validateAuthorizationCode
      tokens |-> null,            \* what validateAuthorizationCode resolved to
      exchangeError |-> NoError,  \* what validateAuthorizationCode rejected with
      verifyRequest |-> NoRequest,\* the arguments given to verify
      verifyTokens |-> null,
      verifyResult |-> null,      \* what verify resolved to
      outcome |-> NoOutcome ]

\* authenticate(request) runs up to its first await, or to its throw
Begin(opts, request, state) ==
    LET step == authenticate(opts, request, state)
    IN  IF step.kind = "throw"
        THEN [IdleCall EXCEPT !.pc = "done", !.request = request,
                              !.outcome = step.outcome]
        ELSE [IdleCall EXCEPT !.pc = "exchange", !.request = request,
                              !.exchangeCode = step.code,
                              !.events = <<"validateAuthorizationCode:call">>]

\* the tokens arrive and authenticate goes on to nothing: verify is not
\* called and the call neither returns nor throws
AfterExchangeHangs(call, tokens) == [call EXCEPT !.pc = "hung"]

\* verify is given a token set other than the one just received
AfterExchangeOtherTokens(call, tokens) ==
    [call EXCEPT !.pc = "verify",
                 !.verifyRequest = call.request, !.verifyTokens = "tokens1",
                 !.events = @ \o <<"verify:call">>]

\* let tokens = await this.client.validateAuthorizationCode(code);
\* let user = await this.verify({ request, tokens });
AfterExchange(call, tokens) ==
    [call EXCEPT !.pc = "verify",
                 !.verifyRequest = call.request, !.verifyTokens = tokens,
                 !.events = @ \o <<"verify:call">>]

\* a failed exchange is tried again
AfterExchangeErrorRetried(call, error) ==
    [call EXCEPT !.pc = "exchange",
                 !.events = @ \o <<"validateAuthorizationCode:call">>]

\* validateAuthorizationCode rejects: the await throws out of authenticate
AfterExchangeError(call, error) ==
    [call EXCEPT !.pc = "done", !.outcome = Failed(error)]

\* return user;
AfterVerify(call, user) ==
    [call EXCEPT !.pc = "done", !.outcome = Returned(user)]

\* verify rejects: the await throws out of authenticate
AfterVerifyError(call, error) ==
    [call EXCEPT !.pc = "done", !.outcome = Failed(error)]

\* the caller has not yet taken the outcome of an ended call
Pending == \E c \in Calls : calls[c].pc = "done"

-----------------------------------------------------------------------------
(* Actions *)

Init ==
    /\ options \in OptionsSet
    /\ calls = [c \in Calls |-> IdleCall]
    /\ AsideIdle

\* strategy.authenticate(request) is called; the call takes the first
\* free slot
Authenticate(c) ==
    /\ ~Pending
    /\ calls[c].pc = "idle"
    /\ \A d \in Calls : d < c => calls[d].pc # "idle"
    /\ \E request \in Requests, state \in GeneratedStates :
          calls' = [calls EXCEPT ![c] = Begin(options, request, state)]
    /\ UNCHANGED <<options, aside>>

\* the tokens that arrive are handed to every call that awaits an exchange
ExchangeResolvesShared(c) ==
    /\ ~Pending
    /\ calls[c].pc = "exchange"
    /\ \E tokens \in TokenSet :
          calls' = [d \in Calls |->
                      IF calls[d].pc = "exchange"
                      THEN AfterExchange(
                               [calls[d] EXCEPT
                                   !.tokens = tokens,
                                   !.events = @ \o <<"validateAuthorizationCode:return">>],
                               tokens)
                      ELSE calls[d]]
    /\ UNCHANGED <<options, aside>>

\* the token endpoint answers with tokens
ExchangeResolves(c) ==
    /\ ~Pending
    /\ calls[c].pc = "exchange"
    /\ \E tokens \in TokenSet :
          LET got == [calls[c] EXCEPT
                         !.tokens = tokens,
                         !.events = @ \o <<"validateAuthorizationCode:return">>]
          IN  calls' = [calls EXCEPT ![c] = AfterExchange(got, tokens)]
    /\ UNCHANGED <<options, aside>>

\* the token exchange fails
ExchangeRejects(c) ==
    /\ ~Pending
    /\ calls[c].pc = "exchange"
    /\ \E error \in ExchangeErrors :
          LET got == [calls[c] EXCEPT
                         !.exchangeError = error,
                         !.events = @ \o <<"validateAuthorizationCode:throw">>]
          IN  calls' = [calls EXCEPT ![c] = AfterExchangeError(got, error)]
    /\ UNCHANGED <<options, aside>>

\* the verify callback resolves to a user
VerifyResolves(c) ==
    /\ ~Pending
    /\ calls[c].pc = "verify"
    /\ \E user \in Users :
          LET got == [calls[c] EXCEPT
                         !.verifyResult = user,
                         !.events = @ \o <<"verify:return">>]
          IN  calls' = [calls EXCEPT ![c] = AfterVerify(got, user)]
    /\ UNCHANGED <<options, aside>>

\* the verify callback throws
VerifyRejects(c) ==
    /\ ~Pending
    /\ calls[c].pc = "verify"
    /\ LET got == [calls[c] EXCEPT !.events = @ \o <<"verify:throw">>]
       IN  calls' = [calls EXCEPT ![c] = AfterVerifyError(got, VerifyError)]
    /\ UNCHANGED <<options, aside>>

\* the state parameter of a URL's query string
StateOf(url) == SearchParamsGet(ParseQuery(url.search), "state")

\* the callback request of a client that followed this redirect: it sends
\* back the cookie it was set, and the provider hands it the state of the
\* authorization URL and, when it grants one, a code
CallbackRequest(response, code) ==
    [ search |-> Search(null, null, null, StateOf(response.Location), code),
      headers |-> CookieHeader(response.SetCookie["name"],
                               response.SetCookie["value"]) ]

\* the caller sends the redirect of an ended call to the client, and the
\* client comes back from the provider: authenticate is called with the
\* callback request
FollowRedirect(c) ==
    /\ calls[c].outcome.kind = "redirect"
    /\ \E code \in CodeValues, state \in GeneratedStates :
          LET response == calls[c].outcome.response
              request == CallbackRequest(response, code)
          IN  calls' = [calls EXCEPT ![c] =
                          [Begin(options, request, state) EXCEPT !.origin = response]]
    /\ UNCHANGED <<options, aside>>

\* the caller takes the outcome of an ended call
Settle(c) ==
    /\ calls[c].pc = "done"
    /\ calls' = [calls EXCEPT ![c] = IdleCall]
    /\ UNCHANGED <<options, aside>>

Next ==
    \E c \in Calls :
        \/ Authenticate(c)
        \/ ExchangeResolves(c)
        \/ ExchangeRejects(c)
        \/ VerifyResolves(c)
        \/ VerifyRejects(c)
        \/ FollowRedirect(c)
        \/ Settle(c)

Spec == Init /\ [][Next]_vars

-----------------------------------------------------------------------------
(* The initial login under every configuration: authenticate() called with *)
(* requests that take the redirect branch                                  *)

\* the `scopes` option: unset, or a list (empty, with repeats, in any order)
ScopesConfigs ==
    {ScopesUnset} \cup
    { Scopes(list) : list \in UNION { [1..n -> ScopeValues] : n \in 0..MaxScopes } }

\* attributes a `cookie` option object can carry besides its name
CookieOverrides ==
    ("httpOnly" :> FALSE) @@ ("maxAge" :> 60) @@ ("path" :> "/auth")
    @@ ("sameSite" :> "Strict") @@ ("value" :> <<"forged">>)

\* the `cookie` option: unset, a name, or an object with a name and any
\* of the attributes
CookieConfigs ==
    {CookieUnset, CookieString(""), CookieString("custom")} \cup
    { CookieObject(("name" :> "custom") @@ [k \in keys |-> CookieOverrides[k]]) :
        keys \in SUBSET DOMAIN CookieOverrides }

LoginOptionsSet ==
    { Options(cookie, scopes) : cookie \in CookieConfigs, scopes \in ScopesConfigs }

\* requests without a `state` (and without an `error`) in the URL
LoginRequests ==
    { [search |-> Search(t[1], null, null, t[2], t[3]), headers |-> <<>>] :
        t \in {null, ""} \X {null, ""} \X {null, "c1"} }

LoginInit ==
    /\ options \in LoginOptionsSet
    /\ calls = [c \in Calls |-> IdleCall]
    /\ AsideIdle

\* strategy.authenticate(request) for a first visit
Login(c) ==
    /\ ~Pending
    /\ calls[c].pc = "idle"
    /\ \A d \in Calls : d < c => calls[d].pc # "idle"
    /\ \E request \in LoginRequests, state \in GeneratedStates :
          calls' = [calls EXCEPT ![c] = Begin(options, request, state)]
    /\ UNCHANGED <<options, aside>>

LoginNext == \E c \in Calls : Login(c) \/ Settle(c)

LoginSpec == LoginInit /\ [][LoginNext]_vars

-----------------------------------------------------------------------------
(* Initial logins one after another, with the history of generateState()   *)
(* and of the redirects issued                                             *)

\* the most calls of generateState() followed
MaxGenerated == 3

\* one token is made and handed out each time
generateStateOnce(log) == "state" \o ToString(1)

\* generateState(): a random token of 32 bytes, taken to be one that it
\* has not returned before
generateState(log) == "state" \o ToString(Len(log.generated) + 1)

\* first visits: no `state` and no `error` in the URL (or empty ones),
\* with or without the cookie of an earlier redirect
FreshLoginRequests(log) ==
    { [search |-> Search(t[1], null, null, t[2], t[3]), headers |-> t[4]] :
        t \in {null, ""} \X {null, ""} \X {null, "c1"}
              \X ({ <<>> } \cup
                  { CookieHeader(cookieName(options), CookieValue(log.generated[i])) :
                      i \in 1..Len(log.generated) }) }

\* strategy.authenticate(request) for a first visit: the redirect branch
\* calls generateState()
LoginFresh(c) ==
    /\ ~Pending
    /\ calls[c].pc = "idle"
    /\ \A d \in Calls : d < c => calls[d].pc # "idle"
    /\ Len(stateLog.generated) < MaxGenerated
    /\ \E request \in FreshLoginRequests(stateLog) :
          LET state == generateState(stateLog)
              call == Begin(options, request, state)
          IN  /\ calls' = [calls EXCEPT ![c] = call]
              /\ stateLog' =
                    [ generated |-> Append(stateLog.generated, state),
                      redirects |->
                          IF call.outcome.kind = "redirect"
                          THEN Append(stateLog.redirects,
                                      StateOf(call.outcome.response.Location))
                          ELSE stateLog.redirects ]
    /\ UNCHANGED <<options, legacy, client, refresh, emailsResponse,
                   accessTokenCall, context, profileCall, override>>

GenerateInit ==
    /\ options \in OptionsSet
    /\ calls = [c \in Calls |-> IdleCall]
    /\ AsideIdle

GenerateNext == \E c \in Calls : LoginFresh(c) \/ Settle(c)

GenerateSpec == GenerateInit /\ [][GenerateNext]_vars

-----------------------------------------------------------------------------
(* The initial login of subclasses that define authorizationParams         *)

\* what the instance has as authorizationParams: the method of the class,
\* or one that adds a parameter, replaces the state, or returns no
\* parameter at all
Overrides == {"default", "allow_signup", "state", "empty"}

OverrideInit ==
    /\ options \in OptionsSet
    /\ calls = [c \in Calls |-> IdleCall]
    /\ legacy = NoLegacy
    /\ client = GitHub(options.clientId, options.clientSecret, options.redirectURI)
    /\ refresh = NoRefresh
    /\ stateLog = NoStateLog
    /\ emailsResponse = NoEmailsResponse
    /\ accessTokenCall = NoAccessTokenCall
    /\ context = NoContext
    /\ profileCall = NoProfileCall
    /\ override \in Overrides

OverrideNext == \E c \in Calls : Login(c) \/ Settle(c)

OverrideSpec == OverrideInit /\ [][OverrideNext]_vars

-----------------------------------------------------------------------------
(* The strategy instance under authenticate() and refreshToken() calls *)

RefreshTokens == {"", "refresh1", "refresh2"}

\* an empty refresh token is refused without a call of the client
refreshTokenChecked(given) ==
    IF given = ""
    THEN [NoRefresh EXCEPT !.pc = "done", !.refreshToken = given,
                           !.error = ReferenceError("Missing refresh token")]
    ELSE [NoRefresh EXCEPT !.pc = "pending", !.refreshToken = given,
                           !.adapterCalls = <<given>>]

\* refreshToken(refreshToken) up to the promise it returns:
\* return this.client.refreshAccessToken(refreshToken)
refreshToken(given) ==
    [NoRefresh EXCEPT !.pc = "pending", !.refreshToken = given,
                      !.adapterCalls = <<given>>]

\* the refresh token is kept on the client
RefreshTokenKept ==
    /\ refresh.pc = "idle"
    /\ \E given \in RefreshTokens :
          /\ refresh' = refreshToken(given)
          /\ client' = client @@ ("refreshToken" :> given)
    /\ UNCHANGED <<options, calls, legacy, emailsResponse,
                   accessTokenCall, context, profileCall,
                   stateLog, override>>

\* a call of refreshToken(refreshToken)
RefreshToken ==
    /\ refresh.pc = "idle"
    /\ \E given \in RefreshTokens :
          refresh' = refreshToken(given)
    /\ UNCHANGED <<options, calls, legacy, client, emailsResponse,
                   accessTokenCall, context, profileCall,
                   stateLog, override>>

\* the promise of refreshAccessToken resolves with new tokens
RefreshResolves ==
    /\ refresh.pc = "pending"
    /\ \E tokens \in TokenSet :
          refresh' = [refresh EXCEPT !.pc = "done", !.adapterTokens = tokens,
                                     !.tokens = tokens]
    /\ UNCHANGED <<options, calls, legacy, client, emailsResponse,
                   accessTokenCall, context, profileCall,
                   stateLog, override>>

\* the promise of refreshAccessToken rejects
RefreshRejects ==
    /\ refresh.pc = "pending"
    /\ \E error \in ExchangeErrors :
          refresh' = [refresh EXCEPT !.pc = "done", !.adapterError = error,
                                     !.error = error]
    /\ UNCHANGED <<options, calls, legacy, client, emailsResponse,
                   accessTokenCall, context, profileCall,
                   stateLog, override>>

\* the caller has taken the result of refreshToken()
RefreshSettle ==
    /\ refresh.pc = "done"
    /\ refresh' = NoRefresh
    /\ UNCHANGED <<options, calls, legacy, client, emailsResponse,
                   accessTokenCall, context, profileCall,
                   stateLog, override>>

InstanceInit ==
    /\ options \in OptionsSet
    /\ calls = [c \in Calls |-> IdleCall]
    /\ AsideIdle

InstanceNext ==
    \/ \E c \in Calls :
          \/ Login(c)
          \/ ExchangeResolves(c)
          \/ ExchangeRejects(c)
          \/ VerifyResolves(c)
          \/ VerifyRejects(c)
          \/ FollowRedirect(c)
          \/ Settle(c)
    \/ RefreshToken
    \/ RefreshResolves
    \/ RefreshRejects
    \/ RefreshSettle

InstanceSpec == InstanceInit /\ [][InstanceNext]_vars

-----------------------------------------------------------------------------
(* The email normalizer on its own *)

\* new Response(body), then emails()
EmailsInit ==
    /\ options = Options(CookieUnset, ScopesUnset)
    /\ calls = [c \in Calls |-> IdleCall]
    /\ legacy = NoLegacy
    /\ client = GitHub(options.clientId, options.clientSecret, options.redirectURI)
    /\ refresh = NoRefresh
    /\ stateLog = NoStateLog
    /\ override = DefaultAuthorizationParams
    /\ accessTokenCall = NoAccessTokenCall
    /\ context = NoContext
    /\ profileCall = NoProfileCall
    /\ \E body \in Bodies :
          emailsResponse = [pc |-> "new", body |-> body, result |-> EmailsReturn(<<>>)]

Emails ==
    /\ emailsResponse.pc = "new"
    /\ emailsResponse' = [emailsResponse EXCEPT !.pc = "called",
                                                !.result = emails(emailsResponse.body)]
    /\ UNCHANGED <<options, calls, legacy, client, refresh,
                   accessTokenCall, context, profileCall,
                   stateLog, override>>

EmailsNext == Emails

EmailsSpec == EmailsInit /\ [][EmailsNext]_vars

-----------------------------------------------------------------------------
(* getAccessToken on its own: called with the response of the token        *)
(* endpoint                                                                *)

\* the longest value of expires_in, in characters
MaxExpiresLength == 3

ExpiresChars == {"0", "1", "7", "-", " ", "x"}

\* a field of the response: left out, or there with one of these values
Field(name, values) ==
    { <<>> } \cup { << <<name, v>> >> : v \in values }

ExpiresValues ==
    UNION { [1..n -> ExpiresChars] : n \in 0..MaxExpiresLength }

\* the bodies of the token response
TokenResponses ==
    { t[1] \o t[2] \o t[3] \o t[4] \o t[5] :
        t \in Field("access_token", {<<>>, <<"a", "t">>})
              \X Field("token_type", {<<>>, <<"b">>})
              \X Field("refresh_token", {<<>>, <<"r", "t">>})
              \X Field("expires_in", ExpiresValues)
              \X Field("refresh_token_expires_in", {<<"7">>, <<"x">>}) }

AccessTokenInit ==
    /\ options = Options(CookieUnset, ScopesUnset)
    /\ calls = [c \in Calls |-> IdleCall]
    /\ legacy = NoLegacy
    /\ client = GitHub(options.clientId, options.clientSecret, options.redirectURI)
    /\ refresh = NoRefresh
    /\ stateLog = NoStateLog
    /\ override = DefaultAuthorizationParams
    /\ emailsResponse = NoEmailsResponse
    /\ context = NoContext
    /\ profileCall = NoProfileCall
    /\ \E data \in TokenResponses :
          accessTokenCall = [NoAccessTokenCall EXCEPT !.pc = "response", !.data = data]

\* getAccessToken(response)
GetAccessToken ==
    /\ accessTokenCall.pc = "response"
    /\ accessTokenCall' = [accessTokenCall EXCEPT
                              !.pc = "called",
                              !.result = getAccessToken(accessTokenCall.data)]
    /\ UNCHANGED <<options, calls, legacy, client, refresh, emailsResponse,
                   context, profileCall,
                   stateLog, override>>

AccessTokenNext == GetAccessToken

AccessTokenSpec == AccessTokenInit /\ [][AccessTokenNext]_vars

-----------------------------------------------------------------------------
(* Request.Context on its own: constructed, then used through authorize,   *)
(* its body map and toRequest in any order                                 *)

Methods == {"GET", "HEAD", "POST", "PATCH", "get"}

UserAgents == {"Remix Auth", "custom"}

AccessTokens == {"t1", "t2"}

BodyKeys == {"b", "1"}

BodyValues == {"x", "y"}

Endpoints == {"https://api.github.com/user", "https://api.github.com/user/emails"}

ContextInit ==
    /\ options = Options(CookieUnset, ScopesUnset)
    /\ calls = [c \in Calls |-> IdleCall]
    /\ legacy = NoLegacy
    /\ client = GitHub(options.clientId, options.clientSecret, options.redirectURI)
    /\ refresh = NoRefresh
    /\ stateLog = NoStateLog
    /\ override = DefaultAuthorizationParams
    /\ emailsResponse = NoEmailsResponse
    /\ accessTokenCall = NoAccessTokenCall
    /\ profileCall = NoProfileCall
    /\ \E method \in Methods, userAgent \in UserAgents :
          context = Context(method, userAgent)

\* context.authorize(token)
Authorize ==
    /\ \E token \in AccessTokens : context' = authorize(context, token)
    /\ UNCHANGED <<options, calls, legacy, client, refresh, emailsResponse,
                   accessTokenCall, profileCall,
                   stateLog, override>>

\* context.body.set(key, value)
BodySet ==
    /\ \E key \in BodyKeys, value \in BodyValues :
          context' = [context EXCEPT !.body = MapSet(context.body, key, value)]
    /\ UNCHANGED <<options, calls, legacy, client, refresh, emailsResponse,
                   accessTokenCall, profileCall,
                   stateLog, override>>

\* context.toRequest(url)
ToRequest ==
    /\ \E url \in Endpoints :
          context' = [context EXCEPT !.pc = "request", !.request = toRequest(context, url)]
    /\ UNCHANGED <<options, calls, legacy, client, refresh, emailsResponse,
                   accessTokenCall, profileCall,
                   stateLog, override>>

ContextNext == Authorize \/ BodySet \/ ToRequest

ContextSpec == ContextInit /\ [][ContextNext]_vars

-----------------------------------------------------------------------------
(* userProfile of src/src/index.ts on its own *)

\* the longest list of email records in a response to userProfile
MaxProfileEmails == 2

ProfileScopeValues == {"user", "user:email", "read:user"}

ProfileScopes ==
    {None} \cup
    { Some(list) : list \in UNION { [1..n -> ProfileScopeValues] : n \in 0..MaxScopes } }

ProfileEmails == {"a@example.com", null}

UserInfoURL == "https://api.github.com/user"
UserEmailsURL == "https://api.github.com/user/emails"

ProfileEmailItems ==
    { Object([email |-> e, verified |-> v, primary |-> p, visibility |-> "public"]) :
        e \in {"a@example.com", "b@example.com"}, v \in BOOLEAN, p \in BOOLEAN }

ProfileEmailLists ==
    UNION { [1..n -> ProfileEmailItems] : n \in 0..MaxProfileEmails }

UserProfileInit ==
    /\ options = Options(CookieUnset, ScopesUnset)
    /\ calls = [c \in Calls |-> IdleCall]
    /\ legacy = NoLegacy
    /\ client = GitHub(options.clientId, options.clientSecret, options.redirectURI)
    /\ refresh = NoRefresh
    /\ stateLog = NoStateLog
    /\ override = DefaultAuthorizationParams
    /\ emailsResponse = NoEmailsResponse
    /\ accessTokenCall = NoAccessTokenCall
    /\ context = NoContext
    /\ \E scopes \in ProfileScopes, userAgent \in UserAgents :
          profileCall = [NoProfileCall EXCEPT !.scopes = scopes, !.userAgent = userAgent]

\* userProfile(tokens) up to its first await
UserProfile ==
    /\ profileCall.pc = "idle"
    /\ \E token \in AccessTokens :
          profileCall' =
              [profileCall EXCEPT
                  !.pc = "profile", !.accessToken = token,
                  !.requests = <<FetchRequest(UserInfoURL, token, profileCall.userAgent)>>,
                  !.profile = NoProfile, !.list = None, !.rejected = NoError,
                  !.result = NoProfileResult]
    /\ UNCHANGED <<options, calls, legacy, client, refresh, emailsResponse,
                   accessTokenCall, context,
                   stateLog, override>>

\* the user-info response arrives: userProfile goes on to fetchUserEmails
\* or returns
UserProfileResponds ==
    /\ profileCall.pc = "profile"
    /\ \E email \in ProfileEmails :
          LET data == Profile(email)
          IN  profileCall' =
                  IF WantsUserEmails(profileCall.scopes)
                  THEN [profileCall EXCEPT
                           !.pc = "emails", !.profile = data,
                           !.requests = Append(@, FetchRequest(UserEmailsURL,
                                            profileCall.accessToken, profileCall.userAgent))]
                  ELSE [profileCall EXCEPT
                           !.pc = "done", !.profile = data,
                           !.result = [NoProfileResult EXCEPT
                                          !.kind = "return",
                                          !.emails = ProfileOwnEmail(data)]]
    /\ UNCHANGED <<options, calls, legacy, client, refresh, emailsResponse,
                   accessTokenCall, context,
                   stateLog, override>>

\* the emails response arrives: fetchUserEmails returns, userProfile returns
FetchUserEmailsResponds ==
    /\ profileCall.pc = "emails"
    /\ \E data \in ProfileEmailLists :
          LET fetched == fetchUserEmails(data)
          IN  profileCall' =
                  [profileCall EXCEPT
                      !.pc = "done", !.list = Some(fetched),
                      !.result = [NoProfileResult EXCEPT
                                     !.kind = "return",
                                     !.emails = ProfileEmailsAfterFetch(fetched)]]
    /\ UNCHANGED <<options, calls, legacy, client, refresh, emailsResponse,
                   accessTokenCall, context,
                   stateLog, override>>

\* a fetch or its json() rejects: the await throws out of userProfile
UserProfileFetchFails ==
    /\ profileCall.pc \in {"profile", "emails"}
    /\ profileCall' = [profileCall EXCEPT
                          !.pc = "done", !.rejected = FetchError,
                          !.result = [NoProfileResult EXCEPT
                                         !.kind = "throw", !.error = FetchError]]
    /\ UNCHANGED <<options, calls, legacy, client, refresh, emailsResponse,
                   accessTokenCall, context,
                   stateLog, override>>

\* the caller has taken the profile or the error
UserProfileSettle ==
    /\ profileCall.pc = "done"
    /\ profileCall' = [profileCall EXCEPT !.pc = "idle"]
    /\ UNCHANGED <<options, calls, legacy, client, refresh, emailsResponse,
                   accessTokenCall, context,
                   stateLog, override>>

UserProfileNext ==
    \/ UserProfile
    \/ UserProfileResponds
    \/ FetchUserEmailsResponds
    \/ UserProfileFetchFails
    \/ UserProfileSettle

UserProfileSpec == UserProfileInit /\ [][UserProfileNext]_vars

-----------------------------------------------------------------------------
(* userProfile of src/unnamed/part_002 on its own *)

\* the bodies of the emails response: arrays of records, some of them not
\* of the shape expected, and JSON values that are no arrays
LibBodies ==
    {ObjectBody, NullBody}
    \cup { ArrayBody(items) :
             items \in UNION { [1..n -> ProfileEmailItems \cup {NullValue, Without("visibility")}] :
                                 n \in 0..MaxProfileEmails } }

LibUserProfileInit ==
    /\ options = Options(CookieUnset, ScopesUnset)
    /\ calls = [c \in Calls |-> IdleCall]
    /\ legacy = NoLegacy
    /\ client = GitHub(options.clientId, options.clientSecret, options.redirectURI)
    /\ refresh = NoRefresh
    /\ stateLog = NoStateLog
    /\ override = DefaultAuthorizationParams
    /\ emailsResponse = NoEmailsResponse
    /\ accessTokenCall = NoAccessTokenCall
    /\ context = NoContext
    /\ \E scopes \in ProfileScopes, userAgent \in UserAgents :
          profileCall = [NoProfileCall EXCEPT !.scopes = LibScopes(scopes),
                                              !.userAgent = userAgent]

\* userProfile(tokens) up to its first await: UserProfile.send has built
\* its request and fetches it
LibUserProfile ==
    /\ profileCall.pc = "idle"
    /\ \E token \in AccessTokens :
          profileCall' =
              [profileCall EXCEPT
                  !.pc = "profile", !.accessToken = token,
                  !.requests = <<UserProfileSendRequest(UserInfoURL,
                                    LibContext(token, profileCall.userAgent))>>,
                  !.profile = NoProfile, !.list = None, !.rejected = NoError,
                  !.result = NoProfileResult]
    /\ UNCHANGED <<options, calls, legacy, client, refresh, emailsResponse,
                   accessTokenCall, context,
                   stateLog, override>>

\* UserProfile.send resolves with the profile: userProfile goes on to
\* userEmails, whose Emails.send builds its request and fetches it, or
\* returns
UserProfileSendResolves ==
    /\ profileCall.pc = "profile"
    /\ \E email \in ProfileEmails :
          LET profile == Profile(email)
          IN  profileCall' =
                  IF LibWantsUserEmails(profileCall.scopes)
                  THEN [profileCall EXCEPT
                           !.pc = "emails", !.profile = profile,
                           !.requests = Append(@, EmailsSendRequest(UserEmailsURL,
                                            LibContext(profileCall.accessToken,
                                                       profileCall.userAgent)))]
                  ELSE [profileCall EXCEPT
                           !.pc = "done", !.profile = profile,
                           !.result = [NoProfileResult EXCEPT
                                          !.kind = "return",
                                          !.emails = <<[value |-> profile.email]>>]]
    /\ UNCHANGED <<options, calls, legacy, client, refresh, emailsResponse,
                   accessTokenCall, context,
                   stateLog, override>>

\* the emails response arrives: Emails.send gives its body to
\* new Response(body).emails(), whose list userProfile returns and whose
\* throw it lets through
EmailsSendResolves ==
    /\ profileCall.pc = "emails"
    /\ \E body \in LibBodies :
          LET normalized == emails(body)
          IN  profileCall' =
                  IF normalized.kind = "throw"
                  THEN [profileCall EXCEPT
                           !.pc = "done",
                           !.rejected = TypeError("Cannot use 'in' operator"),
                           !.result = [NoProfileResult EXCEPT
                                          !.kind = "throw",
                                          !.error = TypeError("Cannot use 'in' operator")]]
                  ELSE [profileCall EXCEPT
                           !.pc = "done", !.list = Some(normalized.list),
                           !.result = [NoProfileResult EXCEPT
                                          !.kind = "return",
                                          !.emails = normalized.list]]
    /\ UNCHANGED <<options, calls, legacy, client, refresh, emailsResponse,
                   accessTokenCall, context,
                   stateLog, override>>

LibUserProfileNext ==
    \/ LibUserProfile
    \/ UserProfileSendResolves
    \/ EmailsSendResolves
    \/ UserProfileFetchFails
    \/ UserProfileSettle

LibUserProfileSpec == LibUserProfileInit /\ [][LibUserProfileNext]_vars

-----------------------------------------------------------------------------
(* Response.emails() called twice on one Response *)

\* the arrays emails() has at hand when it goes on past the checks:
\* this.body, and the array filter() made of it; sort() sorts the array it
\* is called on, in place
EmailsArrays(items, sorted) ==
    LET made == [ body |-> items,
                  filtered |-> SelectSeq(items,
                                   LAMBDA item : ToBoolean(item.fields["verified"])) ]
    IN  [made EXCEPT ![sorted] = Sort(@)]

\* sort() is called on this.body
BodyAfterEmailsSorted(body) ==
    IF body.kind = "array" /\ Every(body.items) = "valid"
    THEN [body EXCEPT !.items = EmailsArrays(body.items, "body").body]
    ELSE body

\* this.body after emails(): sort() is called on what filter() returned
BodyAfterEmails(body) ==
    IF body.kind = "array" /\ Every(body.items) = "valid"
    THEN [body EXCEPT !.items = EmailsArrays(body.items, "filtered").body]
    ELSE body

EmailsAgainInit ==
    /\ options = Options(CookieUnset, ScopesUnset)
    /\ calls = [c \in Calls |-> IdleCall]
    /\ legacy = NoLegacy
    /\ client = GitHub(options.clientId, options.clientSecret, options.redirectURI)
    /\ refresh = NoRefresh
    /\ stateLog = NoStateLog
    /\ override = DefaultAuthorizationParams
    /\ accessTokenCall = NoAccessTokenCall
    /\ context = NoContext
    /\ profileCall = NoProfileCall
    /\ \E body \in LibBodies :
          emailsResponse = [ pc |-> "new", body |-> body,
                             given |-> body,                  \* the body as constructed
                             result |-> EmailsReturn(<<>>),   \* what the first call returned
                             again |-> EmailsReturn(<<>>) ]   \* what the second call returned

\* the first emails()
EmailsFirst ==
    /\ emailsResponse.pc = "new"
    /\ emailsResponse' = [emailsResponse EXCEPT
                             !.pc = "called",
                             !.result = emails(emailsResponse.body),
                             !.body = BodyAfterEmails(emailsResponse.body)]
    /\ UNCHANGED <<options, calls, legacy, client, refresh,
                   accessTokenCall, context, profileCall, stateLog, override>>

\* emails() on the same Response once more
EmailsAgain ==
    /\ emailsResponse.pc = "called"
    /\ emailsResponse' = [emailsResponse EXCEPT
                             !.pc = "again",
                             !.again = emails(emailsResponse.body),
                             !.body = BodyAfterEmails(emailsResponse.body)]
    /\ UNCHANGED <<options, calls, legacy, client, refresh,
                   accessTokenCall, context, profileCall, stateLog, override>>

EmailsAgainNext == EmailsFirst \/ EmailsAgain

EmailsAgainSpec == EmailsAgainInit /\ [][EmailsAgainNext]_vars

-----------------------------------------------------------------------------
(* The profile object userProfile returns, src/unnamed/part_001 and        *)
(* src/unnamed/part_002                                                    *)

ProfileVariants == {"part_001", "part_002"}

DigitChars == <<"0", "1", "2", "3", "4", "5", "6", "7", "8", "9">>

\* Number.prototype.toString() of a non-negative integer, as its characters
RECURSIVE NumberToString(_)
NumberToString(n) ==
    IF n < 10 THEN <<DigitChars[n + 1]>>
    ELSE Append(NumberToString(n \div 10), DigitChars[(n % 10) + 1])

\* a JSON object with the given members
Payload(login, name, email, avatar) ==
    ("login" :> login) @@ ("name" :> name) @@ ("email" :> email)
        @@ ("avatar_url" :> avatar)

PayloadIds == {0, 1, 7, 10, 17, 101, 710}

\* the user-info bodies: with an id or without, the user's name set or
\* null, with a member the profile has no use for or without
Payloads ==
    LET base == { Payload("mona", name, email, "https://avatars.example/1")
                    : name \in {"Mona Lisa", null}, email \in ProfileEmails }
        ided == { ("id" :> id) @@ d : id \in PayloadIds, d \in base }
    IN  ided \cup { ("company" :> "GitHub") @@ d : d \in ided } \cup base

\* the members UserProfile.send requires of the body
HasProfileShape(body) ==
    {"login", "id", "name", "email", "avatar_url"} \subseteq DOMAIN body

\* _json holds the members the profile uses, no others
GitHubProfilePicked(data, array) ==
    [ provider |-> "github",
      displayName |-> data.login,
      id |-> NumberToString(data.id),
      name |-> [familyName |-> data.name, givenName |-> data.name,
                middleName |-> data.name],
      emails |-> array,
      photos |-> <<[value |-> data.avatar_url]>>,
      _json |-> [k \in {"login", "id", "name", "email", "avatar_url"} |-> data[k]] ]

\* the object literal userProfile returns
GitHubProfile(data, array) ==
    [ provider |-> "github",
      displayName |-> data.login,
      id |-> NumberToString(data.id),
      name |-> [familyName |-> data.name, givenName |-> data.name,
                middleName |-> data.name],
      emails |-> array,
      photos |-> <<[value |-> data.avatar_url]>>,
      _json |-> data ]

NoBuiltProfile == [kind |-> "none"]

BuildProfileInit ==
    /\ options = Options(CookieUnset, ScopesUnset)
    /\ calls = [c \in Calls |-> IdleCall]
    /\ legacy = NoLegacy
    /\ client = GitHub(options.clientId, options.clientSecret, options.redirectURI)
    /\ refresh = NoRefresh
    /\ stateLog = NoStateLog
    /\ override = DefaultAuthorizationParams
    /\ emailsResponse = NoEmailsResponse
    /\ accessTokenCall = NoAccessTokenCall
    /\ context = NoContext
    /\ \E variant \in ProfileVariants :
          profileCall = [ pc |-> "profile", variant |-> variant, data |-> <<>>,
                          fetched |-> None, result |-> NoBuiltProfile ]

\* response.json() (part_001) or UserProfile.send (part_002) settles:
\* UserProfile.send rejects a body that has not the profile's shape
ProfileArrives ==
    /\ profileCall.pc = "profile"
    /\ \E data \in Payloads :
          IF profileCall.variant = "part_002" /\ ~HasProfileShape(data)
          THEN profileCall' = [profileCall EXCEPT
                                  !.pc = "done", !.data = data,
                                  !.result = [kind |-> "error",
                                              error |-> TypeError("parse")]]
          ELSE profileCall' = [profileCall EXCEPT !.pc = "emails", !.data = data]
    /\ UNCHANGED <<options, calls, legacy, client, refresh, emailsResponse,
                   accessTokenCall, context, stateLog, override>>

\* the rest of userProfile: emails is the profile's own address or the list
\* userEmails resolved to, data.id.toString() throws on a missing id
ProfileReturn ==
    /\ profileCall.pc = "emails"
    /\ \E fetched \in {None, Some(<<[value |-> "b@example.com"]>>)} :
          profileCall' =
              [profileCall EXCEPT
                  !.pc = "done", !.fetched = fetched,
                  !.result =
                      IF "id" \notin DOMAIN profileCall.data
                      THEN [kind |-> "error",
                            error |-> TypeError("Cannot read properties of undefined")]
                      ELSE [kind |-> "profile",
                            profile |-> GitHubProfile(
                                profileCall.data,
                                IF fetched = None
                                THEN ProfileOwnEmail(profileCall.data)
                                ELSE fetched[1])]]
    /\ UNCHANGED <<options, calls, legacy, client, refresh, emailsResponse,
                   accessTokenCall, context, stateLog, override>>

BuildProfileNext == ProfileArrives \/ ProfileReturn

BuildProfileSpec == BuildProfileInit /\ [][BuildProfileNext]_vars

-----------------------------------------------------------------------------
(* authorizationParams of the variants that add allow_signup to the        *)
(* parameters they are given: src/unnamed/part_002 and the                 *)
(* OAuth2Strategy-based class of src/src/index.ts                          *)

SignupVariants == {"part_002", "index.ts"}

\* this.allowSignup = allowSignup ?? true (part_002), ?? false (index.ts)
allowSignupOf(variant, option) ==
    OrElse(option, variant = "part_002")

\* allow_signup is written whatever its value
authorizationParamsSignupAlways(allowSignup, params) ==
    SearchParamsSet(params, "allow_signup", String(allowSignup))

\* authorizationParams(params):
\* if (this.allowSignup) params.set("allow_signup", "true"); return params
\* (part_002 does so on a copy of params)
authorizationParamsSignup(allowSignup, params) ==
    IF allowSignup THEN SearchParamsSet(params, "allow_signup", "true") ELSE params

\* the parameters OAuth2Strategy hands to authorizationParams: any of these,
\* in this order
BaseParams ==
    << <<"response_type", "code">>, <<"client_id", ClientId>>,
       <<"redirect_uri", RedirectURI>>, <<"state", "s1">>,
       <<"scope", "user:email">> >>

GivenParams ==
    { SelectSeq([i \in 1..Len(BaseParams) |-> <<i, BaseParams[i]>>],
                LAMBDA p : p[1] \in kept) : kept \in SUBSET (1..Len(BaseParams)) }

SignupInit ==
    /\ options = Options(CookieUnset, ScopesUnset)
    /\ calls = [c \in Calls |-> IdleCall]
    /\ client = GitHub(options.clientId, options.clientSecret, options.redirectURI)
    /\ refresh = NoRefresh
    /\ stateLog = NoStateLog
    /\ override = DefaultAuthorizationParams
    /\ emailsResponse = NoEmailsResponse
    /\ accessTokenCall = NoAccessTokenCall
    /\ context = NoContext
    /\ profileCall = NoProfileCall
    /\ legacy = [ pc |-> "none", variant |-> "", option |-> None,
                  allowSignup |-> FALSE, given |-> <<>>, params |-> <<>> ]

\* new GitHubStrategy({ allowSignup, ... }, verify)
SignupConstruct ==
    /\ legacy.pc = "none"
    /\ \E variant \in SignupVariants, option \in {None, Some(TRUE), Some(FALSE)} :
          legacy' = [legacy EXCEPT
                        !.pc = "constructed", !.variant = variant, !.option = option,
                        !.allowSignup = allowSignupOf(variant, option)]
    /\ UNCHANGED <<options, calls, client, refresh, emailsResponse,
                   accessTokenCall, context, profileCall, stateLog, override>>

\* authorizationParams(params), called by OAuth2Strategy
SignupAuthorizationParams ==
    /\ legacy.pc = "constructed"
    /\ \E given \in GivenParams :
          legacy' = [legacy EXCEPT
                        !.pc = "params", !.given = [i \in 1..Len(given) |-> given[i][2]],
                        !.params = authorizationParamsSignup(
                                       legacy.allowSignup,
                                       [i \in 1..Len(given) |-> given[i][2]])]
    /\ UNCHANGED <<options, calls, client, refresh, emailsResponse,
                   accessTokenCall, context, profileCall, stateLog, override>>

SignupNext == SignupConstruct \/ SignupAuthorizationParams

SignupSpec == SignupInit /\ [][SignupNext]_vars

-----------------------------------------------------------------------------
(* The legacy variant on its own: constructed, then asked for its          *)
(* authorization parameters                                                *)

LegacyInit ==
    /\ options = Options(CookieUnset, ScopesUnset)
    /\ calls = [c \in Calls |-> IdleCall]
    /\ AsideIdle

LegacyNext == LegacyConstruct \/ LegacyAuthorizationParams

LegacySpec == LegacyInit /\ [][LegacyNext]_vars

\* Spec with the scheduling the runtime gives: the token exchange and the
\* verify callback of a call each return or fail in the end, and the
\* outcome of an ended call reaches its caller
FairSpec ==
    /\ Spec
    /\ \A c \in Calls :
          /\ SF_vars(ExchangeResolves(c) \/ ExchangeRejects(c))
          /\ SF_vars(VerifyResolves(c) \/ VerifyRejects(c))
          /\ WF_vars(Settle(c) \/ FollowRedirect(c))

TypeOK ==
    /\ options \in OptionsSet
    /\ \A c \in Calls :
          /\ calls[c].pc \in {"idle", "exchange", "verify", "done"}
          /\ calls[c].outcome.kind \in {"none", "redirect", "failure", "result"}
          /\ (calls[c].pc = "done") = (calls[c].outcome.kind # "none")
          /\ calls[c].pc = "idle" => calls[c] = IdleCall

-----------------------------------------------------------------------------
(* What a property can see of a call *)

Started(c) == calls[c].pc # "idle"
Ended(c) == calls[c].pc = "done"

\* the query parameters of the call's request URL
Url(c) == ParseQuery(calls[c].request.search)
UrlParam(c, name) == SearchParamsGet(Url(c), name)
HasParam(c, name) == SearchParamsHas(Url(c), name)

\* a parameter that is there with a value that is not the empty string
HasValue(c, name) == HasParam(c, name) /\ UrlParam(c, name) # ""

\* the payload of the request's cookie of the configured name (empty when
\* there is no Cookie header or no such cookie)
StateCookie(c) ==
    URLSearchParamsInit(
        CookieGet(OrElse(HeadersGet(calls[c].request.headers, "cookie"), <<>>),
                  cookieName(options)))

CookieHasState(c) == SearchParamsHas(StateCookie(c), "state")
CookieState(c) == SearchParamsGet(StateCookie(c), "state")

\* how often the call invoked this function
Count(c, event) ==
    Cardinality({i \in 1..Len(calls[c].events) : calls[c].events[i] = event})

MissingCodeFailure == Failed(ReferenceError("Missing code in the URL"))
MissingStateFailure == Failed(ReferenceError("Missing state on cookie."))
StateMismatchFailure ==
    Failed(RangeError("State in URL doesn't match state in cookie."))

-----------------------------------------------------------------------------
(* C1 *)

\* C1 as stated: a request with no `error` parameter, with a `state` and
\* a `code` parameter, whose cookie holds a `state` entry other than the
\* URL's state, fails with the state-mismatch error and calls neither the
\* exchange nor verify.
C1_AsStated ==
    \A c \in Calls :
        ( /\ Started(c)
          /\ ~HasParam(c, "error")
          /\ HasParam(c, "state") /\ HasParam(c, "code")
          /\ CookieHasState(c)
          /\ CookieState(c) # UrlParam(c, "state") )
        => /\ Ended(c)
           /\ calls[c].outcome = StateMismatchFailure
           /\ calls[c].events = <<>>

\* C1 amended: the same for a request whose `state` and `code` parameters
\* are not empty: it fails with the state-mismatch error, and neither
\* validateAuthorizationCode nor verify is called.
C1_StateMismatchFails ==
    \A c \in Calls :
        ( /\ Started(c)
          /\ ~HasParam(c, "error")
          /\ HasValue(c, "state") /\ HasValue(c, "code")
          /\ CookieHasState(c)
          /\ CookieState(c) # UrlParam(c, "state") )
        => /\ Ended(c)
           /\ calls[c].outcome = StateMismatchFailure
           /\ calls[c].events = <<>>

\* a callback whose cookie state differs from the URL's has failed
C1_Witness ==
    \E c \in Calls :
        /\ Ended(c)
        /\ ~HasParam(c, "error")
        /\ HasValue(c, "state") /\ HasValue(c, "code")
        /\ CookieHasState(c)
        /\ CookieState(c) # UrlParam(c, "state")
        /\ calls[c].outcome.error.type = "RangeError"

-----------------------------------------------------------------------------
(* C2 *)

LocationParams(c) == ParseQuery(calls[c].outcome.response.Location.search)
SetCookieParams(c) == ParseQuery(calls[c].outcome.response.SetCookie["value"])

\* C2: a request with no `state` and no `error` parameter ends in a thrown
\* redirect whose Location is github.com/login/oauth/authorize and whose
\* Set-Cookie value holds the `state` that the Location's query holds.
C2_RedirectCarriesState ==
    \A c \in Calls :
        (Started(c) /\ ~HasParam(c, "state") /\ ~HasParam(c, "error"))
        => /\ Ended(c)
           /\ calls[c].outcome.kind = "redirect"
           /\ calls[c].outcome.response.Location.hostname = "github.com"
           /\ calls[c].outcome.response.Location.pathname = "/login/oauth/authorize"
           /\ SearchParamsHas(LocationParams(c), "state")
           /\ SearchParamsHas(SetCookieParams(c), "state")
           /\ SearchParamsGet(SetCookieParams(c), "state")
                = SearchParamsGet(LocationParams(c), "state")

\* a redirect was issued for a request without `state`, with the second
\* of the states that can be generated
C2_Witness ==
    \E c \in Calls :
        /\ ~HasParam(c, "state") /\ ~HasParam(c, "error")
        /\ calls[c].outcome.kind = "redirect"
        /\ SearchParamsGet(LocationParams(c), "state") = "s2"

-----------------------------------------------------------------------------
(* C3 *)

\* the call is a callback that replays a redirect the strategy issued:
\* the cookie it set, and the state of its Location
Replays(c) ==
    /\ Started(c)
    /\ calls[c].origin.status = 302
    /\ ~HasParam(c, "error")
    /\ calls[c].request.headers
         = CookieHeader(calls[c].origin.SetCookie["name"],
                        calls[c].origin.SetCookie["value"])
    /\ HasParam(c, "state")
    /\ UrlParam(c, "state") = StateOf(calls[c].origin.Location)

PassedStateValidation(c) ==
    /\ calls[c].outcome # MissingStateFailure
    /\ calls[c].outcome # StateMismatchFailure

ExchangeCalledWithCode(c) ==
    /\ calls[c].events # <<>>
    /\ calls[c].events[1] = "validateAuthorizationCode:call"
    /\ calls[c].exchangeCode = UrlParam(c, "code")

\* C3 as stated: a callback that replays the cookie and the state of a
\* redirect and carries a `code` passes state validation, and
\* validateAuthorizationCode is called with that code.
C3_AsStated ==
    \A c \in Calls :
        (Replays(c) /\ HasParam(c, "code"))
        => PassedStateValidation(c) /\ ExchangeCalledWithCode(c)

\* C3 amended: the same for a callback whose `code` is not empty.
C3_RoundTrip ==
    \A c \in Calls :
        (Replays(c) /\ HasValue(c, "code"))
        => PassedStateValidation(c) /\ ExchangeCalledWithCode(c)

\* a callback replaying a redirect's cookie and state has reached the
\* token exchange
C3_Witness ==
    \E c \in Calls :
        /\ Replays(c) /\ HasValue(c, "code")
        /\ calls[c].pc = "exchange"

-----------------------------------------------------------------------------
(* C4 *)

\* the error authenticate throws for the `error` parameter of the URL
ProviderErrorOf(c) ==
    Failed(OAuth2RequestError(UrlParam(c, "error"), UrlParam(c, "error_description"),
                              UrlParam(c, "error_uri"), UrlParam(c, "state")))

\* C4 as stated: every request whose URL holds an `error` parameter fails
\* with the provider authorization error carrying the error code, the
\* description, the URI and the URL's state, and nothing is called.
C4_AsStated ==
    \A c \in Calls :
        (Started(c) /\ HasParam(c, "error"))
        => /\ Ended(c)
           /\ calls[c].outcome = ProviderErrorOf(c)
           /\ calls[c].events = <<>>

\* C4 amended: every request whose `error` parameter is not empty fails
\* with the provider authorization error carrying the error code,
\* `error_description`, `error_uri` and the URL's `state` (null when
\* absent), whatever `state`, `code` and cookie it has; it is not
\* redirected and neither the exchange nor verify is called.
C4_ErrorFirst ==
    \A c \in Calls :
        (Started(c) /\ HasValue(c, "error"))
        => /\ Ended(c)
           /\ calls[c].outcome = ProviderErrorOf(c)
           /\ calls[c].events = <<>>

\* a request with an error and with a code and a state that matches its
\* cookie has failed with the provider's error
C4_Witness ==
    \E c \in Calls :
        /\ HasValue(c, "error") /\ HasValue(c, "state") /\ HasValue(c, "code")
        /\ CookieHasState(c) /\ CookieState(c) = UrlParam(c, "state")
        /\ UrlParam(c, "error_description") # null
        /\ calls[c].outcome.error.type = "OAuth2RequestError"

-----------------------------------------------------------------------------
(* C5 *)

\* C5 as stated: a request with a `state` parameter, no `error` and no
\* `code` parameter fails with the missing-code error, whatever its
\* cookie, and nothing is called.
C5_AsStated ==
    \A c \in Calls :
        ( /\ Started(c)
          /\ HasParam(c, "state") /\ ~HasParam(c, "error")
          /\ ~HasParam(c, "code") )
        => /\ Ended(c)
           /\ calls[c].outcome = MissingCodeFailure
           /\ calls[c].events = <<>>

\* C5 amended: the same for a request whose `state` is not empty.
C5_MissingCodeFails ==
    \A c \in Calls :
        ( /\ Started(c)
          /\ HasValue(c, "state") /\ ~HasParam(c, "error")
          /\ ~HasParam(c, "code") )
        => /\ Ended(c)
           /\ calls[c].outcome = MissingCodeFailure
           /\ calls[c].events = <<>>

\* a callback without code whose cookie state differs from the URL's has
\* failed with the missing-code error
C5_Witness ==
    \E c \in Calls :
        /\ HasValue(c, "state") /\ ~HasParam(c, "error") /\ ~HasParam(c, "code")
        /\ CookieHasState(c) /\ CookieState(c) # UrlParam(c, "state")
        /\ calls[c].outcome = MissingCodeFailure

-----------------------------------------------------------------------------
(* C6 *)

\* C6 as stated: a callback with a `state` and a `code` parameter whose
\* Cookie header is absent, has no cookie of the configured name, or
\* whose cookie has no `state` entry, fails with the missing-state error,
\* and nothing is called.
C6_AsStated ==
    \A c \in Calls :
        ( /\ Started(c)
          /\ ~HasParam(c, "error")
          /\ HasParam(c, "state") /\ HasParam(c, "code")
          /\ ~CookieHasState(c) )
        => /\ Ended(c)
           /\ calls[c].outcome = MissingStateFailure
           /\ calls[c].events = <<>>

\* C6 amended: the same for a callback whose `state` and `code` are not
\* empty.
C6_MissingStateFails ==
    \A c \in Calls :
        ( /\ Started(c)
          /\ ~HasParam(c, "error")
          /\ HasValue(c, "state") /\ HasValue(c, "code")
          /\ ~CookieHasState(c) )
        => /\ Ended(c)
           /\ calls[c].outcome = MissingStateFailure
           /\ calls[c].events = <<>>

\* a callback whose cookie of the configured name holds no state entry
\* has failed with the missing-state error
C6_Witness ==
    \E c \in Calls :
        /\ HasValue(c, "state") /\ HasValue(c, "code") /\ ~HasParam(c, "error")
        /\ calls[c].request.headers
             = CookieHeader(cookieName(options), <<"foo", "=", "bar">>)
        /\ calls[c].outcome = MissingStateFailure

-----------------------------------------------------------------------------
(* C7 *)

\* the request passes every check of the callback branch
ValidCallback(c) ==
    /\ ~Truthy(UrlParam(c, "error"))
    /\ Truthy(UrlParam(c, "state")) /\ Truthy(UrlParam(c, "code"))
    /\ CookieHasState(c) /\ CookieState(c) = UrlParam(c, "state")

\* C7: on a callback the steps are validate, exchange, verify: the
\* exchange is called only for a request that passed validation, verify
\* only after the exchange returned tokens, with the incoming request and
\* those tokens, and the value returned is the value verify returned.
C7_ValidateExchangeVerify ==
    \A c \in Calls :
        /\ Count(c, "validateAuthorizationCode:call") > 0 => ValidCallback(c)
        /\ Count(c, "verify:call") > 0
             => /\ Len(calls[c].events) >= 3
                /\ SubSeq(calls[c].events, 1, 3)
                     = <<"validateAuthorizationCode:call",
                         "validateAuthorizationCode:return", "verify:call">>
                /\ calls[c].tokens \in TokenSet
                /\ calls[c].verifyRequest = calls[c].request
                /\ calls[c].verifyTokens = calls[c].tokens
        /\ calls[c].outcome.kind = "result"
             => /\ calls[c].events
                     = <<"validateAuthorizationCode:call",
                         "validateAuthorizationCode:return",
                         "verify:call", "verify:return">>
                /\ calls[c].verifyResult \in Users
                /\ calls[c].outcome.user = calls[c].verifyResult

\* a callback has returned the second user for the second token set
C7_Witness ==
    \E c \in Calls :
        /\ calls[c].outcome = Returned("user2")
        /\ calls[c].verifyTokens = "tokens2"

-----------------------------------------------------------------------------
(* C8 *)

\* C8: when validateAuthorizationCode fails, authenticate fails with that
\* same failure, verify is not called, and the exchange was called once.
C8_ExchangeFailurePropagates ==
    \A c \in Calls :
        Count(c, "validateAuthorizationCode:throw") > 0
        => /\ Ended(c)
           /\ calls[c].exchangeError \in ExchangeErrors
           /\ calls[c].outcome = Failed(calls[c].exchangeError)
           /\ Count(c, "verify:call") = 0
           /\ Count(c, "validateAuthorizationCode:call") = 1

\* a call has failed with the transport failure of its exchange
C8_Witness ==
    \E c \in Calls :
        /\ Count(c, "validateAuthorizationCode:throw") = 1
        /\ calls[c].outcome = Failed(ArcticFetchError)

-----------------------------------------------------------------------------
(* C9 *)

ValidationFailures == {MissingCodeFailure, MissingStateFailure, StateMismatchFailure}

\* C9: a call makes at most one network call, the token exchange: none
\* when it ends in a redirect, in the provider's error or in a validation
\* failure, one when the request passes validation, and a call that made
\* the exchange ends only after the exchange returned or failed.
C9_AtMostOneNetworkCall ==
    \A c \in Calls :
        LET n == Count(c, "validateAuthorizationCode:call")
            completed == Count(c, "validateAuthorizationCode:return")
                           + Count(c, "validateAuthorizationCode:throw")
        IN  /\ n <= 1
            /\ (Started(c) /\ ValidCallback(c)) => n = 1
            /\ (Started(c) /\ ~ValidCallback(c)) => (n = 0 /\ Ended(c))
            /\ ( \/ calls[c].outcome.kind = "redirect"
                 \/ calls[c].outcome.error.type = "OAuth2RequestError"
                      /\ calls[c].exchangeError = NoError
                 \/ calls[c].outcome \in ValidationFailures ) => n = 0
            /\ completed <= n
            /\ (Ended(c) /\ n = 1) => completed = 1

\* a call has returned a user after one exchange
C9_Witness ==
    \E c \in Calls :
        /\ calls[c].outcome.kind = "result"
        /\ Count(c, "validateAuthorizationCode:call") = 1
        /\ Count(c, "validateAuthorizationCode:return") = 1

-----------------------------------------------------------------------------
(* C10 *)

\* the request takes the initial-login branch
InitialLogin(c) == ~Truthy(UrlParam(c, "error")) /\ ~Truthy(UrlParam(c, "state"))

\* C10: a call that takes the initial-login branch ends with the thrown
\* redirect: it returns no user and does not call verify (nor the
\* exchange), and only such a call ends in a redirect.
C10_RedirectIsTerminal ==
    \A c \in Calls :
        /\ (Started(c) /\ InitialLogin(c))
             => /\ Ended(c)
                /\ calls[c].outcome.kind = "redirect"
        /\ calls[c].outcome.kind = "redirect"
             => /\ InitialLogin(c)
                /\ calls[c].outcome.response.status = 302
                /\ calls[c].outcome.user = null
                /\ calls[c].verifyResult = null
                /\ calls[c].events = <<>>

\* a request that carries a code but no state has been redirected
C10_Witness ==
    \E c \in Calls :
        /\ ~HasParam(c, "state") /\ HasValue(c, "code")
        /\ calls[c].outcome.kind = "redirect"

-----------------------------------------------------------------------------
(* C11 *)

\* the call ended in exactly one of the three kinds of outcome: the
\* payload of that kind is there and the payloads of the other two are not
ExactlyOneOutcome(c) ==
    LET o == calls[c].outcome
    IN  /\ o.kind \in {"redirect", "result", "failure"}
        /\ (o.kind = "redirect") = (o.response # NoResponse)
        /\ (o.kind = "result") = (o.user # null)
        /\ (o.kind = "failure") = (o.error # NoError)

\* C11: when the exchange and verify each return or fail in the end,
\* every authenticate call ends, and it ends in exactly one of REDIRECT,
\* RESULT and FAILURE: never in none, never in two, and the outcome of an
\* ended call does not change.
C11_EndsInOneOutcome ==
    /\ \A c \in Calls : Started(c) ~> Ended(c)
    /\ [](\A c \in Calls :
            /\ Ended(c) => ExactlyOneOutcome(c)
            /\ ~Ended(c) => calls[c].outcome = NoOutcome)
    /\ [][\A c \in Calls :
            (Ended(c) /\ calls'[c].pc = "done"
                     /\ calls'[c].request = calls[c].request)
                => calls'[c].outcome = calls[c].outcome]_vars

\* a call was redirected, the redirect was followed, and the call that
\* followed it went through the exchange and verify and returned a user
C11_Witness ==
    \E c \in Calls :
        /\ calls[c].outcome.kind = "result"
        /\ calls[c].origin.status = 302
        /\ ExactlyOneOutcome(c)

-----------------------------------------------------------------------------
(* C12 *)

\* the scopes, each but the first after a single space
RECURSIVE SpaceSeparated(_)
SpaceSeparated(scopes) ==
    IF Len(scopes) = 1 THEN scopes[1]
    ELSE SpaceSeparated(SubSeq(scopes, 1, Len(scopes) - 1))
            \o " " \o scopes[Len(scopes)]

ConfiguredScopes == OrElse(options.scopes, <<>>)

\* C12: the Location of a redirect has a `scope` parameter exactly when
\* scopes are configured and the list is not empty, and its value is the
\* configured scopes, in their order, separated by single spaces.
C12_ScopeJoined ==
    \A c \in Calls :
        calls[c].outcome.kind = "redirect"
        => IF ConfiguredScopes = <<>>
           THEN ~SearchParamsHas(LocationParams(c), "scope")
           ELSE /\ SearchParamsHas(LocationParams(c), "scope")
                /\ SearchParamsGet(LocationParams(c), "scope")
                     = SpaceSeparated(ConfiguredScopes)

\* a redirect was issued under a configuration of two scopes, in the
\* order that is not the alphabetical one
C12_Witness ==
    \E c \in Calls :
        /\ calls[c].outcome.kind = "redirect"
        /\ options.scopes = Scopes(<<"user:email", "read:user">>)
        /\ SearchParamsGet(LocationParams(c), "scope") = "user:email read:user"

\* a redirect was issued under the empty list of scopes
C12_WitnessEmpty ==
    \E c \in Calls :
        /\ calls[c].outcome.kind = "redirect"
        /\ options.scopes = Scopes(<<>>)

-----------------------------------------------------------------------------
(* C13 *)

\* the elements of an array of scopes, each but the first after a space
RECURSIVE SpaceSeparatedWords(_)
SpaceSeparatedWords(array) ==
    IF array = <<>> THEN <<>>
    ELSE IF Len(array) = 1 THEN array[1]
    ELSE SpaceSeparatedWords(SubSeq(array, 1, Len(array) - 1))
            \o <<" ">> \o array[Len(array)]

LegacyScopeParam == SearchParamsGet(legacy.params, "scope")

\* C13 as stated, an empty array counted as an empty `scope`: the `scope`
\* parameter is user:email when the option is unset, the empty string or
\* the empty array; otherwise the string itself, or the array's elements
\* separated by single spaces.
C13_AsStated ==
    legacy.pc = "params"
    => LET o == legacy.scopeOption
       IN  CASE o.kind = "unset" -> LegacyScopeParam = <<"user:email">>
             [] o.kind = "string" ->
                  LegacyScopeParam = IF o.string = <<>> THEN <<"user:email">>
                                     ELSE o.string
             [] o.kind = "array" ->
                  LegacyScopeParam = IF o.array = <<>> THEN <<"user:email">>
                                     ELSE SpaceSeparatedWords(o.array)

\* C13: the `scope` parameter is user:email when the option is unset or
\* the empty string; a string that is not empty is passed as it is (also
\* with leading, trailing and doubled spaces); an array gives its elements
\* separated by single spaces, which for the empty array is the empty
\* string and not the default.
C13_LegacyScope ==
    legacy.pc = "params"
    => LET o == legacy.scopeOption
       IN  CASE o.kind = "unset" -> LegacyScopeParam = <<"user:email">>
             [] o.kind = "string" ->
                  LegacyScopeParam = IF o.string = <<>> THEN <<"user:email">>
                                     ELSE o.string
             [] o.kind = "array" ->
                  LegacyScopeParam = SpaceSeparatedWords(o.array)

\* the parameters were asked of a strategy configured with a string that
\* has a doubled space in it
C13_Witness ==
    /\ legacy.pc = "params"
    /\ legacy.scopeOption = LegacyScopeString(<<"custom", " ", " ">>)
    /\ LegacyScopeParam = <<"custom", " ", " ">>

\* the parameters were asked of a strategy configured with the empty array
C13_WitnessEmptyArray ==
    /\ legacy.pc = "params"
    /\ legacy.scopeOption = LegacyScopeArray(<<>>)
    /\ LegacyScopeParam = <<>>

-----------------------------------------------------------------------------
(* C14 *)

\* the attributes of the state cookie when the `cookie` option names none
DefaultAttributes ==
    ("httpOnly" :> TRUE) @@ ("maxAge" :> 300) @@ ("path" :> "/")
    @@ ("sameSite" :> "Lax")

\* what the `cookie` option supplies: something only when it is an object
Supplied == IF options.cookie.kind = "object" THEN options.cookie.object ELSE <<>>

\* the Set-Cookie of the redirect the call ended in
SetCookieOf(c) == calls[c].outcome.response.SetCookie

\* every attribute is the supplied one, or the default when none is supplied
AttributesOverride(c) ==
    \A a \in DOMAIN DefaultAttributes :
        /\ a \in DOMAIN SetCookieOf(c)
        /\ SetCookieOf(c)[a] = IF a \in DOMAIN Supplied THEN Supplied[a]
                               ELSE DefaultAttributes[a]

\* the value of the cookie is state=<the state in the Location>
ValueIsState(c) ==
    /\ "value" \in DOMAIN SetCookieOf(c)
    /\ SetCookieOf(c)["value"]
         = <<"state", "=", SearchParamsGet(LocationParams(c), "state")>>

\* C14: the Set-Cookie of a redirect has HttpOnly, Max-Age=300, Path=/ and
\* SameSite=Lax unless the `cookie` option supplies the attribute, every
\* supplied attribute replaces its default, and under every `cookie`
\* option the value is state=<generated state>.
C14_AsStated ==
    \A c \in Calls :
        calls[c].outcome.kind = "redirect"
        => AttributesOverride(c) /\ ValueIsState(c)

\* the part of C14 about the attributes alone
C14_AttributesOverride ==
    \A c \in Calls :
        calls[c].outcome.kind = "redirect" => AttributesOverride(c)

\* the value is the state whenever the `cookie` option carries no `value`
C14_ValueUnlessSupplied ==
    \A c \in Calls :
        (calls[c].outcome.kind = "redirect" /\ "value" \notin DOMAIN Supplied)
        => ValueIsState(c)

\* a redirect whose cookie value is the one the `cookie` option carries
C14_ValueReplaced ==
    \E c \in Calls :
        /\ calls[c].outcome.kind = "redirect"
        /\ "value" \in DOMAIN Supplied
        /\ SetCookieOf(c)["value"] = <<"forged">>

-----------------------------------------------------------------------------
(* C15 *)

\* the call is a callback whose cookie holds the state of its URL, and it
\* passed the validation of the state: it went on to the token exchange
ValidatedCallback(c) ==
    /\ Started(c)
    /\ HasValue(c, "state")
    /\ CookieHasState(c)
    /\ CookieState(c) = UrlParam(c, "state")
    /\ Count(c, "validateAuthorizationCode:call") > 0

\* this step starts a call in slot c
NewCall(c) ==
    /\ calls[c].pc \in {"idle", "done"}
    /\ calls'[c].pc # "idle"
    /\ calls'[c] # calls[c]

\* C15: once a callback with cookie state s and URL state s has passed the
\* validation of the state, a call that starts later with the same Cookie
\* header and the same `state` does not pass it again: it does not reach
\* the token exchange.
C15_AsStated ==
    [][\A c, d \in Calls :
         ( /\ c # d
           /\ ValidatedCallback(d)
           /\ NewCall(c)
           /\ calls'[c].request.headers = calls[d].request.headers
           /\ UrlParam(c, "state")' = UrlParam(d, "state") )
         => ~ValidatedCallback(c)']_vars

\* two calls with the same Cookie header and the same `state` have both
\* reached the token exchange
C15_ReplayPasses ==
    \E c, d \in Calls :
        /\ c # d
        /\ ValidatedCallback(c) /\ ValidatedCallback(d)
        /\ calls[c].request = calls[d].request

-----------------------------------------------------------------------------
(* C16 *)

\* the call took the callback branch: no `error` and a `state` in its URL
Callback(c) ==
    Started(c) /\ ~Truthy(UrlParam(c, "error")) /\ Truthy(UrlParam(c, "state"))

\* the outcome of the call carries a Set-Cookie header
CarriesSetCookie(c) == calls[c].outcome.response.SetCookie # <<>>

\* C16: a call on the callback branch never ends in an outcome that
\* carries a Set-Cookie, whether it returns a user or fails; the state
\* cookie is set only by the redirect of a call that is no callback, and
\* every such redirect sets it.
C16_CookieOnlyOnRedirect ==
    \A c \in Calls :
        /\ Callback(c) => ~CarriesSetCookie(c)
        /\ CarriesSetCookie(c)
             => /\ calls[c].outcome.kind = "redirect"
                /\ ~Callback(c)
                /\ calls[c].outcome.response.SetCookie["name"] = cookieName(options)
        /\ calls[c].outcome.kind = "redirect" => CarriesSetCookie(c)

\* a callback whose cookie holds no state has failed, and its failure
\* carries no Set-Cookie
C16_Witness ==
    \E c \in Calls :
        /\ Callback(c)
        /\ calls[c].outcome = MissingStateFailure
        /\ ~CarriesSetCookie(c)

-----------------------------------------------------------------------------
(* C17 *)

\* the instance: what the constructor stored on `this`
Instance == <<options, client>>

\* the instance is as the constructor made it from one of the
\* configurations: it has no field for a state or for tokens
AsConstructed ==
    /\ options \in OptionsSet
    /\ client = GitHub(options.clientId, options.clientSecret, options.redirectURI)

\* C17: no authenticate or refreshToken call, and no return or failure of
\* the exchange, of verify or of the refresh, changes the options or the
\* client; the instance stays as constructed, so it holds neither the
\* generated state nor the tokens of any call.
C17_InstanceUnchanged ==
    /\ [][Instance' = Instance]_vars
    /\ []AsConstructed

\* one authenticate call has ended with a user and a refreshToken call has
\* returned tokens, and the instance is as constructed
C17_Witness ==
    /\ \E c \in Calls : calls[c].outcome.kind = "result" /\ calls[c].tokens # null
    /\ refresh.pc = "done" /\ refresh.tokens # null
    /\ AsConstructed

-----------------------------------------------------------------------------
(* C18 *)

\* emails() has been called on the Response
EmailsCalled == emailsResponse.pc = "called"
EmailsBody == emailsResponse.body
EmailsResult == emailsResponse.result

\* the body is an array of records of GitHub's shape
WellFormedBody ==
    /\ EmailsBody.kind = "array"
    /\ \A i \in 1..Len(EmailsBody.items) : EmailsBody.items[i] \in WellFormedItems

Entry(item, type) == [value |-> item.fields["email"], type |-> type]

\* the verified records of the body with this `primary`, in their order,
\* as entries of this type
Group(primary, type) ==
    LET group == SelectSeq(EmailsBody.items,
                           LAMBDA item : /\ item.fields["verified"] = TRUE
                                         /\ item.fields["primary"] = primary)
    IN  [i \in 1..Len(group) |-> Entry(group[i], type)]

\* C18: for a well-formed list, emails() returns the verified primary
\* records in their original order as "primary" entries, followed by the
\* verified records that are not primary in their original order as
\* "secondary" entries, and nothing else.
C18_VerifiedPrimaryFirst ==
    (EmailsCalled /\ WellFormedBody)
    => /\ EmailsResult.kind = "return"
       /\ EmailsResult.list = Group(TRUE, "primary") \o Group(FALSE, "secondary")

\* the example: [a unverified primary, b verified secondary, c verified
\* primary] has given [c primary, b secondary]
C18_Witness ==
    /\ EmailsCalled
    /\ EmailsBody = ArrayBody(<<
          Object([email |-> "a@example.com", verified |-> FALSE, primary |-> TRUE,
                  visibility |-> "public"]),
          Object([email |-> "b@example.com", verified |-> TRUE, primary |-> FALSE,
                  visibility |-> "public"]),
          Object([email |-> "c@example.com", verified |-> TRUE, primary |-> TRUE,
                  visibility |-> "public"]) >>)
    /\ EmailsResult = EmailsReturn(<<
          [value |-> "c@example.com", type |-> "primary"],
          [value |-> "b@example.com", type |-> "secondary"] >>)

-----------------------------------------------------------------------------
(* C19 *)

\* the item is null, an array, no object, or lacks one of the four keys
IllShaped(item) ==
    \/ item.kind # "object"
    \/ \E key \in {"email", "verified", "primary", "visibility"} :
          key \notin DOMAIN item.fields

IllShapedBody ==
    \/ EmailsBody.kind # "array"
    \/ \E i \in 1..Len(EmailsBody.items) : IllShaped(EmailsBody.items[i])

\* C19: emails() never throws, and it returns the empty list when the
\* body is no array or when one of its elements is null, an array, no
\* object or lacks one of the keys, whatever the other elements are.
C19_IllShapedGivesEmpty ==
    EmailsCalled
    => /\ EmailsResult.kind = "return"
       /\ IllShapedBody => EmailsResult.list = <<>>

\* a verified record followed by null has given the empty list
C19_Witness ==
    /\ EmailsCalled
    /\ EmailsBody = ArrayBody(<<
          Object([email |-> "a@example.com", verified |-> TRUE, primary |-> TRUE,
                  visibility |-> "public"]),
          NullValue >>)
    /\ EmailsResult = EmailsReturn(<<>>)

-----------------------------------------------------------------------------
(* C20 *)

\* C20: no email value appears twice in the list emails() returns.
C20_AsStated ==
    EmailsCalled
    => \A i, j \in 1..Len(EmailsResult.list) :
          i # j => EmailsResult.list[i].value # EmailsResult.list[j].value

\* two verified records of one email have given two entries of that email
C20_Duplicate ==
    /\ EmailsCalled
    /\ WellFormedBody
    /\ Len(EmailsBody.items) = 2
    /\ EmailsResult.kind = "return"
    /\ Len(EmailsResult.list) = 2
    /\ EmailsResult.list[1].value = EmailsResult.list[2].value

-----------------------------------------------------------------------------
(* C21 *)

\* C21: a refreshToken call has called the client's refreshAccessToken
\* once, with the string it was given (the empty one too); while the
\* client has not answered the call has no outcome, and once it has, the
\* call's tokens or failure are the client's.
C21_RefreshDelegates ==
    refresh.pc # "idle"
    => /\ refresh.adapterCalls = <<refresh.refreshToken>>
       /\ refresh.tokens = refresh.adapterTokens
       /\ refresh.error = refresh.adapterError
       /\ (refresh.pc = "done")
            = (refresh.adapterTokens # null \/ refresh.adapterError # NoError)
       /\ ~(refresh.adapterTokens # null /\ refresh.adapterError # NoError)

\* refreshToken("") has returned the tokens the client returned
C21_Witness ==
    /\ refresh.pc = "done"
    /\ refresh.refreshToken = ""
    /\ refresh.adapterCalls = <<"">>
    /\ refresh.tokens = "tokens2"

-----------------------------------------------------------------------------
(* C24 *)

\* the payload of the cookie of the configured name in these headers
StateCookieIn(headers) ==
    URLSearchParamsInit(
        CookieGet(OrElse(HeadersGet(headers, "cookie"), <<>>), cookieName(options)))

\* the Cookie headers whose state cookie holds a state that is not the
\* state of the call's URL
MismatchingHeaders(c) ==
    { h \in HeaderChoices :
        /\ SearchParamsHas(StateCookieIn(h), "state")
        /\ SearchParamsGet(StateCookieIn(h), "state") # UrlParam(c, "state") }

\* C24: a callback that failed on a state mismatch has the failure that
\* the same URL has with every other mismatching cookie state: the
\* failure depends neither on the state in the cookie nor on anything
\* else in the Cookie header.
C24_MismatchRevealsNothing ==
    \A c \in Calls :
        ( /\ Ended(c)
          /\ HasValue(c, "state") /\ HasValue(c, "code") /\ ~HasValue(c, "error")
          /\ calls[c].request.headers \in MismatchingHeaders(c) )
        => /\ calls[c].outcome.kind = "failure"
           /\ \A h \in MismatchingHeaders(c), generated \in GeneratedStates :
                Begin(options, [calls[c].request EXCEPT !.headers = h],
                      generated).outcome = calls[c].outcome

\* a callback with state s1 and a cookie holding s2 has failed on the
\* mismatch, and the empty cookie state is another mismatching one
C24_Witness ==
    \E c \in Calls :
        /\ calls[c].outcome = StateMismatchFailure
        /\ UrlParam(c, "state") = "s1"
        /\ CookieState(c) = "s2"
        /\ Cardinality(MismatchingHeaders(c)) >= 2

-----------------------------------------------------------------------------
(* C25 *)

\* the call failed in authenticate itself, before any call of the client
FailedItself(c) ==
    Ended(c) /\ calls[c].outcome.kind = "failure" /\ calls[c].events = <<>>

\* C25: the type of a failure authenticate raises itself tells which of
\* the four failures it is: the provider's error, the missing code, the
\* missing state cookie or the state mismatch.
C25_AsStated ==
    \A c \in Calls :
        FailedItself(c)
        => /\ calls[c].outcome.error.type = "OAuth2RequestError"
                => calls[c].outcome = ProviderErrorOf(c)
           /\ \A failure \in {MissingCodeFailure, MissingStateFailure,
                              StateMismatchFailure} :
                calls[c].outcome.error.type = failure.error.type
                    => calls[c].outcome = failure

\* a call has failed on the missing state cookie with the type the
\* missing-code failure has
C25_SameType ==
    \E c \in Calls :
        /\ FailedItself(c)
        /\ calls[c].outcome = MissingStateFailure
        /\ calls[c].outcome.error.type = MissingCodeFailure.error.type

-----------------------------------------------------------------------------
(* C27 *)

\* C27: a request whose URL holds an `error` parameter, the empty one
\* too, fails with the provider authorization error; it is not
\* redirected and its code and cookie are not looked at.
C27_AsStated ==
    \A c \in Calls :
        (Started(c) /\ HasParam(c, "error"))
        => /\ Ended(c)
           /\ calls[c].outcome.kind = "failure"
           /\ calls[c].outcome.error.type = "OAuth2RequestError"
           /\ calls[c].events = <<>>

\* a request with `error=` and no state has been redirected
C27_EmptyErrorRedirected ==
    \E c \in Calls :
        /\ HasParam(c, "error") /\ UrlParam(c, "error") = ""
        /\ calls[c].outcome.kind = "redirect"

\* C27 amended: the error branch is taken when `error` is not empty: the
\* request fails with the provider authorization error, is not
\* redirected and its code and cookie are not looked at.  A request whose
\* `error` is the empty string is handled as one without `error`: it is
\* redirected when it has no state, and handled as a callback otherwise.
C27_NonEmptyErrorFails ==
    \A c \in Calls :
        /\ (Started(c) /\ HasValue(c, "error"))
             => /\ Ended(c)
                /\ calls[c].outcome.kind = "failure"
                /\ calls[c].outcome.error.type = "OAuth2RequestError"
                /\ calls[c].events = <<>>
        /\ (Started(c) /\ HasParam(c, "error") /\ UrlParam(c, "error") = "")
             => /\ ~(FailedItself(c) /\ calls[c].outcome.error.type = "OAuth2RequestError")
                /\ ~HasValue(c, "state") => calls[c].outcome.kind = "redirect"
                /\ HasValue(c, "state") => calls[c].outcome.kind # "redirect"

\* a request with `error=access_denied` and a state that matches its
\* cookie has failed with the provider's error
C27_Witness ==
    \E c \in Calls :
        /\ UrlParam(c, "error") = "access_denied"
        /\ HasValue(c, "state") /\ CookieHasState(c)
        /\ CookieState(c) = UrlParam(c, "state")
        /\ calls[c].outcome.error.type = "OAuth2RequestError"
        /\ calls[c].outcome.error.code = "access_denied"

-----------------------------------------------------------------------------
(* C28 *)

\* C28: a request whose URL holds a `state` parameter, the empty one
\* too, is never answered with a redirect, and a request that holds none
\* (and no `error`) is.
C28_AsStated ==
    \A c \in Calls :
        /\ (Started(c) /\ HasParam(c, "state"))
              => calls[c].outcome.kind # "redirect"
        /\ calls[c].outcome.kind = "redirect" => ~HasParam(c, "state")

\* a request with `state=` and a code has been redirected with a new
\* state cookie
C28_EmptyStateRedirected ==
    \E c \in Calls :
        /\ HasParam(c, "state") /\ UrlParam(c, "state") = ""
        /\ HasValue(c, "code")
        /\ calls[c].outcome.kind = "redirect"
        /\ CarriesSetCookie(c)

\* C28 amended: a request whose `state` is not empty is never answered
\* with a redirect; a request without `error` whose `state` is absent or
\* the empty string is answered with the redirect and a new state cookie.
C28_NonEmptyStateNotRedirected ==
    \A c \in Calls :
        /\ (Started(c) /\ HasValue(c, "state"))
              => calls[c].outcome.kind # "redirect"
        /\ (Started(c) /\ ~HasValue(c, "state") /\ ~HasValue(c, "error"))
              => /\ calls[c].outcome.kind = "redirect"
                 /\ CarriesSetCookie(c)
        /\ calls[c].outcome.kind = "redirect" => ~HasValue(c, "state")

\* a callback with a state, a code and no cookie has failed and was not
\* redirected
C28_Witness ==
    \E c \in Calls :
        /\ HasValue(c, "state") /\ HasValue(c, "code")
        /\ calls[c].request.headers = <<>>
        /\ calls[c].outcome = MissingStateFailure

-----------------------------------------------------------------------------
(* C22, C23: getAccessToken and the two expiry fields                      *)

\* the values the response's text gives for `name`
ValuesOf(data, name) == { data[i][2] : i \in {j \in 1..Len(data) : data[j][1] = name} }

\* the field is in the response with a value that is not empty
NonEmptyField(data, name) == \E v \in ValuesOf(data, name) : v # <<>>

AccessTokenCalled == accessTokenCall.pc = "called"

AccessTokenReturned == AccessTokenCalled /\ accessTokenCall.result.kind = "return"

\* a base-10 integer: an optional sign, then digits only
IsInteger(chars) ==
    LET unsigned == IF chars # <<>> /\ Head(chars) \in {"-", "+"} THEN Tail(chars) ELSE chars
    IN  /\ unsigned # <<>>
        /\ \A i \in 1..Len(unsigned) : unsigned[i] \in DOMAIN DigitValue

\* no integer can be read from it: past whitespace and a sign, no digit
NoInteger(chars) ==
    LET trimmed == SkipWhitespace(chars)
        unsigned == IF trimmed # <<>> /\ Head(trimmed) \in {"-", "+"} THEN Tail(trimmed) ELSE trimmed
    IN  unsigned = <<>> \/ Head(unsigned) \notin DOMAIN DigitValue

ExpiryAsStated(data, name, parsed) ==
    /\ ValuesOf(data, name) = {} => parsed = Null
    /\ \A v \in ValuesOf(data, name) :
          /\ NoInteger(v) => parsed = Null
          /\ IsInteger(v) => parsed.kind = "number"

\* C22: a token response with an access token and a token type is parsed
\* without an error, and each of expires_in and refresh_token_expires_in
\* comes out as a number when the field holds a base-10 integer and as null
\* when the field is absent, empty or no integer can be read from it.
C22_AsStated ==
    AccessTokenCalled
        => /\ NonEmptyField(accessTokenCall.data, "access_token")
              /\ NonEmptyField(accessTokenCall.data, "token_type")
                  => accessTokenCall.result.kind = "return"
           /\ AccessTokenReturned
                  => /\ ExpiryAsStated(accessTokenCall.data, "expires_in",
                                       accessTokenCall.result.accessTokenExpiresIn)
                     /\ ExpiryAsStated(accessTokenCall.data, "refresh_token_expires_in",
                                       accessTokenCall.result.refreshTokenExpiresIn)

\* C23: getAccessToken throws AuthorizationError "Missing access token."
\* when the response has no non-empty access_token, else "Missing token
\* type." when it has no non-empty token_type, and else returns the access
\* token, the token type and the refresh_token of the response, the empty
\* string standing in for an absent refresh_token.
C23_AccessTokenChecked ==
    AccessTokenCalled
        => LET data == accessTokenCall.data
               result == accessTokenCall.result
           IN  IF ~NonEmptyField(data, "access_token")
               THEN /\ result.kind = "throw"
                    /\ result.error.type = "AuthorizationError"
                    /\ result.error.message = "Missing access token."
               ELSE IF ~NonEmptyField(data, "token_type")
               THEN /\ result.kind = "throw"
                    /\ result.error.type = "AuthorizationError"
                    /\ result.error.message = "Missing token type."
               ELSE /\ result.kind = "return"
                    /\ result.accessToken \in ValuesOf(data, "access_token")
                    /\ result.tokenType \in ValuesOf(data, "token_type")
                    /\ IF ValuesOf(data, "refresh_token") = {}
                       THEN result.refreshToken = <<>>
                       ELSE result.refreshToken \in ValuesOf(data, "refresh_token")

\* both fields are missing and the call has thrown
C23_Witness ==
    /\ AccessTokenCalled
    /\ ~NonEmptyField(accessTokenCall.data, "access_token")
    /\ ~NonEmptyField(accessTokenCall.data, "token_type")
    /\ accessTokenCall.result.kind = "throw"

\* a response without refresh_token has been turned into tokens
C23_WitnessNoRefreshToken ==
    /\ AccessTokenReturned
    /\ ValuesOf(accessTokenCall.data, "refresh_token") = {}

-----------------------------------------------------------------------------
(* C26: the request a Request.Context builds                               *)

Built == context.request.kind = "request"

\* the object the tokens of a JSON text denote, as the set of its members
MembersOf(json) ==
    { <<json[i], json[i + 2]>> : i \in {j \in 2..(Len(json) - 1) : j % 4 = 2} }

\* the text is the JSON of an object with exactly the entries of the map
IsJSONOf(json, entries) ==
    /\ Len(json) = IF entries = <<>> THEN 2 ELSE 4 * Len(entries) + 1
    /\ json[1] = "{" /\ json[Len(json)] = "}"
    /\ \A i \in 2..(Len(json) - 1) :
          /\ i % 4 = 3 => json[i] = ":"
          /\ i % 4 = 1 => json[i] = ","
    /\ MembersOf(json) = { <<Quote(entries[i][1]), Quote(entries[i][2])>> : i \in 1..Len(entries) }

C26_WitnessGET ==
    /\ Built
    /\ context.method = "GET"
    /\ context.request.body = None

\* the method `get` is not the string GET: toRequest gives it a body and
\* the Request constructor throws
C26_LowerCaseThrows ==
    /\ context.method = "get"
    /\ context.request.kind = "throw"

-----------------------------------------------------------------------------
(* C29: the emails of the profile userProfile of src/src/index.ts returns  *)

ProfileReturned == profileCall.pc = "done" /\ profileCall.result.kind = "return"

\* C29: a profile returned by userProfile of index.ts has as its emails the
\* list fetchUserEmails returned when the scopes include `user` or
\* `user:email`, and otherwise the one entry with the profile's own email.
C29_AsStated ==
    ProfileReturned
        => IF \E i \in 1..Len(OrElse(profileCall.scopes, <<>>)) :
                  OrElse(profileCall.scopes, <<>>)[i] \in {"user", "user:email"}
           THEN /\ profileCall.list # None
                /\ profileCall.result.emails = profileCall.list[1]
           ELSE profileCall.result.emails = <<[value |-> profileCall.profile.email]>>

\* fetchUserEmails returned a verified address and the profile has none
C29_EmailsDropped ==
    /\ ProfileReturned
    /\ profileCall.list # None
    /\ profileCall.list[1] # <<>>
    /\ profileCall.result.emails = <<>>

-----------------------------------------------------------------------------
(* C30: the requests of userProfile of src/unnamed/part_002                *)

\* a GET, without a body, to this endpoint
IsGetTo(request, url) ==
    /\ request.kind = "request"
    /\ request.method = "GET"
    /\ request.url = url
    /\ request.body = None

\* `user:email` is among the scopes of the strategy
HasUserEmailScope ==
    \E i \in 1..Len(OrElse(profileCall.scopes, <<>>)) :
        OrElse(profileCall.scopes, <<>>)[i] = "user:email"

\* C30: a userProfile call of part_002 first fetches the user-info endpoint
\* with one GET; it fetches the user-emails endpoint, with one GET, only
\* when the scopes include `user:email` and only once the profile has
\* arrived, and a call that returns has done so exactly when the scopes
\* include it; no request is issued twice; what a fetch or the normalizer
\* failed with is what the call throws; a returned profile has as emails
\* the normalizer's list with `user:email` and the one entry with the
\* profile's email without.
C30_ProfileRequests ==
    LET requests == profileCall.requests
        result == profileCall.result
    IN  /\ profileCall.pc = "profile" =>
              /\ Len(requests) = 1
              /\ result.kind = "none"
        /\ profileCall.pc = "emails" =>
              /\ Len(requests) = 2
              /\ HasUserEmailScope
              /\ profileCall.profile.kind = "profile"
              /\ result.kind = "none"
        /\ profileCall.pc \in {"profile", "emails", "done"} =>
              /\ Len(requests) \in {1, 2}
              /\ IsGetTo(requests[1], UserInfoURL)
              /\ Len(requests) = 2 => IsGetTo(requests[2], UserEmailsURL)
        /\ profileCall.pc = "done" =>
              /\ result.kind \in {"return", "throw"}
              /\ profileCall.rejected # NoError <=> result.kind = "throw"
              /\ result.kind = "throw" => result.error = profileCall.rejected
              /\ result.kind = "return" =>
                    /\ Len(requests) = 2 <=> HasUserEmailScope
                    /\ IF HasUserEmailScope
                       THEN profileCall.list # None /\ result.emails = profileCall.list[1]
                       ELSE result.emails = <<[value |-> profileCall.profile.email]>>

\* a profile returned with the list of the normalizer after both requests
C30_Witness ==
    /\ ProfileReturned
    /\ Len(profileCall.requests) = 2
    /\ profileCall.list # None
    /\ profileCall.list[1] # <<>>
    /\ profileCall.result.emails = profileCall.list[1]

\* a profile returned with its own email, without user:email
C30_WitnessOwnEmail ==
    /\ ProfileReturned
    /\ ~HasUserEmailScope
    /\ Len(profileCall.requests) = 1
    /\ profileCall.result.emails = <<[value |-> "a@example.com"]>>

\* the emails request failed and the call has thrown
C30_WitnessEmailsFailed ==
    /\ profileCall.pc = "done"
    /\ Len(profileCall.requests) = 2
    /\ profileCall.result.kind = "throw"

\* the normalizer gave the empty list and the profile has no emails
C30_WitnessEmpty ==
    /\ ProfileReturned
    /\ profileCall.list = Some(<<>>)
    /\ profileCall.result.emails = <<>>

-----------------------------------------------------------------------------
(* C34: the name of the state cookie                                       *)

\* the name the `cookie` option asks for
ConfiguredCookieName ==
    CASE options.cookie.kind = "unset" -> "github"
      [] options.cookie.kind = "string" ->
            IF options.cookie.string = "" THEN "github" ELSE options.cookie.string
      [] options.cookie.kind = "object" -> options.cookie.object["name"]

\* the cookie of that name in the Cookie header of the call's request
NamedCookie(c) ==
    CookieGet(OrElse(HeadersGet(calls[c].request.headers, "cookie"), <<>>),
              ConfiguredCookieName)

\* C34: the cookie a redirect sets is named github when the `cookie` option
\* is unset or the empty string, the string when it is another string, and
\* the object's `name` when it is an object; a callback is validated only
\* against the cookie of that same name: without it the call fails with the
\* missing-state error, and a call that went on to the exchange was sent it
\* with the state of its URL.
C34_CookieName ==
    \A c \in Calls :
        /\ calls[c].outcome.kind = "redirect"
              => calls[c].outcome.response.SetCookie["name"] = ConfiguredCookieName
        /\ ( /\ Started(c)
             /\ ~HasValue(c, "error")
             /\ HasValue(c, "state") /\ HasValue(c, "code") )
              => /\ NamedCookie(c) = None => calls[c].outcome = MissingStateFailure
                 /\ calls[c].events # <<>>
                       => /\ NamedCookie(c) # None
                          /\ SearchParamsGet(URLSearchParamsInit(NamedCookie(c)), "state")
                                = UrlParam(c, "state")

\* with the option a string other than the empty one, a callback that
\* sent back the cookie of a redirect has reached the exchange
C34_Witness ==
    \E c \in Calls :
        /\ options.cookie.kind = "string"
        /\ options.cookie.string = "custom"
        /\ Replays(c)
        /\ calls[c].origin.SetCookie["name"] = "custom"
        /\ calls[c].pc = "exchange"

\* with the option the empty string, a redirect has set the cookie github
C34_WitnessEmptyString ==
    \E c \in Calls :
        /\ options.cookie.kind = "string"
        /\ options.cookie.string = ""
        /\ calls[c].outcome.kind = "redirect"
        /\ calls[c].outcome.response.SetCookie["name"] = "github"

\* with the option an object, a callback sent a cookie of another name and
\* has failed
C34_WitnessOtherName ==
    \E c \in Calls :
        /\ options.cookie.kind = "object"
        /\ HasValue(c, "state") /\ HasValue(c, "code") /\ ~HasValue(c, "error")
        /\ calls[c].request.headers = CookieHeader("github", <<"state", "=", "s1">>)
        /\ UrlParam(c, "state") = "s1"
        /\ calls[c].outcome = MissingStateFailure

-----------------------------------------------------------------------------
(* C35: every redirect carries a state of its own                          *)

\* the states the cookies of the call's request hold
RequestCookieStates(c) ==
    LET cookie == OrElse(HeadersGet(calls[c].request.headers, "cookie"), <<>>)
    IN  { SearchParamsGet(URLSearchParamsInit(Some(cookie[i].value)), "state") :
            i \in 1..Len(cookie) }

-----------------------------------------------------------------------------
(* C32: the query of the Location is what authorizationParams returned     *)

\* the parameters the adapter builds for this state
AdapterBuilt(state) ==
    << <<"response_type", "code">>, <<"client_id", ClientId>>,
       <<"redirect_uri", RedirectURI>>, <<"state", state>> >>
    \o (IF ConfiguredScopes = <<>> THEN <<>>
        ELSE << <<"scope", SpaceSeparated(ConfiguredScopes)>> >>)

\* what the authorizationParams of the instance returns for them
AuthorizationParamsReturn(built) ==
    CASE override = "default" -> built
      [] override = "allow_signup" -> built \o << <<"allow_signup", "true">> >>
      [] override = "state" ->
            [i \in 1..Len(built) |->
                IF built[i][1] = "state" THEN <<"state", "overridden">> ELSE built[i]]
      [] override = "empty" -> <<>>

\* C32: the query of a redirect's Location holds exactly the parameters
\* authorizationParams returned for the parameters of the adapter: with the
\* method of the class these are response_type=code, client_id,
\* redirect_uri, state and scope as the adapter built them, and with any
\* authorizationParams the cookie holds the generated state.
C32_LocationIsAuthorizationParams ==
    \A c \in Calls :
        calls[c].outcome.kind = "redirect"
            => LET generated == SearchParamsGet(SetCookieParams(c), "state")
               IN  /\ generated \in GeneratedStates
                   /\ LocationParams(c) = AuthorizationParamsReturn(AdapterBuilt(generated))

\* a subclass has replaced the state of the URL, and the cookie holds the
\* generated one
C32_Witness ==
    \E c \in Calls :
        /\ override = "state"
        /\ calls[c].outcome.kind = "redirect"
        /\ SearchParamsGet(LocationParams(c), "state") = "overridden"
        /\ SearchParamsGet(SetCookieParams(c), "state") = "s2"

\* with the method of the class the Location has the scope of the adapter
C32_WitnessDefault ==
    \E c \in Calls :
        /\ override = "default"
        /\ calls[c].outcome.kind = "redirect"
        /\ SearchParamsGet(LocationParams(c), "scope") = "user:email read:user"
        /\ Len(LocationParams(c)) = 5

-----------------------------------------------------------------------------
(* C36: calls that overlap on one instance                                 *)

\* where authenticate stands after its synchronous part when it is called
\* alone with the request of call c and generateState() returns `state`
Alone(c, state) == Begin(options, calls[c].request, state)

\* call c stands where a call running alone on its request, given the
\* answers c was given by the token endpoint and by verify, would stand
AsIfAlone(c) ==
    CASE calls[c].pc = "idle" -> TRUE
      [] calls[c].pc = "exchange" ->
            \E state \in GeneratedStates :
                /\ Alone(c, state).pc = "exchange"
                /\ Alone(c, state).exchangeCode = calls[c].exchangeCode
      [] calls[c].pc = "verify" ->
            /\ \E state \in GeneratedStates : Alone(c, state).pc = "exchange"
            /\ calls[c].verifyTokens = calls[c].tokens
            /\ calls[c].verifyRequest = calls[c].request
      [] calls[c].pc = "done" ->
            IF calls[c].events = <<>>
            THEN \E state \in GeneratedStates :
                    Alone(c, state).outcome = calls[c].outcome
            ELSE /\ \E state \in GeneratedStates : Alone(c, state).pc = "exchange"
                 /\ calls[c].outcome =
                       IF calls[c].exchangeError # NoError
                       THEN Failed(calls[c].exchangeError)
                       ELSE IF calls[c].verifyResult # null
                       THEN Returned(calls[c].verifyResult)
                       ELSE Failed(VerifyError)

\* C36: a step of one authenticate call leaves every other call as it is,
\* and every call stands, and ends, as it would running alone on its own
\* request with the answers it was itself given: a callback is validated
\* against the Cookie header of its own request only.
C36_CallsIndependent ==
    /\ [](\A c \in Calls : AsIfAlone(c))
    /\ [][ \A c, d \in Calls :
              (c # d /\ calls'[c] # calls[c]) => calls'[d] = calls[d] ]_vars

\* two flows overlap: one call awaits verify and the other the exchange,
\* each validated against its own cookie and state
C36_Witness ==
    /\ calls[1].pc = "verify"
    /\ calls[2].pc = "exchange"
    /\ UrlParam(1, "state") # UrlParam(2, "state")
    /\ CookieState(1) = UrlParam(1, "state")
    /\ CookieState(2) = UrlParam(2, "state")

-----------------------------------------------------------------------------
(* C37: emails() does not change the Response                              *)

\* C37: after emails() the body of the Response is the body it was
\* constructed with, the same items in the same order, and a second
\* emails() on the Response returns a list equal to that of the first.
C37_BodyUnchanged ==
    /\ emailsResponse.pc \in {"called", "again"}
          => emailsResponse.body = emailsResponse.given
    /\ emailsResponse.pc = "again"
          => emailsResponse.again = emailsResponse.result

\* emails() was called twice on a body whose verified primary address
\* comes last: the list has it first, the body still has it last
C37_Witness ==
    /\ emailsResponse.pc = "again"
    /\ emailsResponse.body.kind = "array"
    /\ Len(emailsResponse.body.items) = 2
    /\ Len(emailsResponse.again.list) = 2
    /\ emailsResponse.body.items[2].fields["email"] = emailsResponse.again.list[1].value
    /\ emailsResponse.body.items[1].fields["email"] # emailsResponse.again.list[1].value

-----------------------------------------------------------------------------
(* C33: allow_signup in the variants that extend the given parameters      *)

\* what the allowSignup option asks for, unset standing for true in
\* part_002 and for false in index.ts
SignupAsked ==
    IF legacy.option = None THEN legacy.variant = "part_002" ELSE legacy.option[1]

\* the indices of the returned parameters named allow_signup
AllowSignupAt == {i \in 1..Len(legacy.params) : legacy.params[i][1] = "allow_signup"}

\* C33: the parameters authorizationParams returns hold allow_signup=true,
\* once, when allowSignup is true, and no allow_signup when it is false; all
\* parameters given are there with their values, in their order; an unset
\* allowSignup is true in part_002 and false in index.ts.
C33_AllowSignup ==
    legacy.pc = "params"
        => /\ IF SignupAsked
              THEN /\ Cardinality(AllowSignupAt) = 1
                   /\ \A i \in AllowSignupAt : legacy.params[i][2] = "true"
              ELSE AllowSignupAt = {}
           /\ SelectSeq(legacy.params, LAMBDA p : p[1] # "allow_signup") = legacy.given

\* part_002 with allowSignup unset has added allow_signup to five
\* parameters
C33_Witness ==
    /\ legacy.pc = "params"
    /\ legacy.variant = "part_002"
    /\ legacy.option = None
    /\ Len(legacy.given) = 5
    /\ Len(legacy.params) = 6
    /\ legacy.params[6] = <<"allow_signup", "true">>

\* index.ts with allowSignup unset has returned the parameters as given
C33_WitnessUnsetFalse ==
    /\ legacy.pc = "params"
    /\ legacy.variant = "index.ts"
    /\ legacy.option = None
    /\ legacy.given # <<>>
    /\ legacy.params = legacy.given

-----------------------------------------------------------------------------
(* C31: the shape of the profile userProfile returns                       *)

\* the characters are the decimal numeral of n: they read back as n and
\* there is no leading zero
IsDecimalOf(chars, n) ==
    /\ chars # <<>>
    /\ \A i \in 1..Len(chars) : chars[i] \in DOMAIN DigitValue
    /\ Len(chars) > 1 => chars[1] # "0"
    /\ Decimal(chars) = n

\* C31: a profile userProfile returns has provider github, the payload's
\* login as displayName, the decimal numeral of the payload's id as id, the
\* payload's name as each of the three name parts, one photo, holding
\* avatar_url, and the payload itself as _json.
C31_ProfileShape ==
    (profileCall.pc = "done" /\ profileCall.result.kind = "profile")
        => LET p == profileCall.result.profile
               data == profileCall.data
           IN  /\ p.provider = "github"
               /\ p.displayName = data.login
               /\ IsDecimalOf(p.id, data.id)
               /\ p.name.familyName = data.name
               /\ p.name.givenName = data.name
               /\ p.name.middleName = data.name
               /\ Len(p.photos) = 1
               /\ p.photos[1] = [value |-> data.avatar_url]
               /\ p._json = data

\* a profile built from a payload with a three-digit id, a null name and a
\* member the profile has no use for
C31_Witness ==
    /\ profileCall.pc = "done"
    /\ profileCall.result.kind = "profile"
    /\ profileCall.data.id = 710
    /\ profileCall.result.profile.id = <<"7", "1", "0">>
    /\ profileCall.data.name = null
    /\ "company" \in DOMAIN profileCall.result.profile._json

\* part_001 threw on a payload without an id: no profile
C31_WitnessNoId ==
    /\ profileCall.pc = "done"
    /\ profileCall.variant = "part_001"
    /\ profileCall.result.kind = "error"

====
